---- MODULE Spec2Model ----
(***************************************************************************)
(* gitdis: a Git-backed configuration cache.                               *)
(*                                                                         *)
(* The module models                                                       *)
(*   - the ordered, capacity-bounded cache (quickleaf / memotree Cache),   *)
(*   - the payload flattener (payload.rs),                                 *)
(*   - the branch worker (BranchHandler: setup, tick, record dispatch),    *)
(*   - a remote repository that receives pushes, and a reader (get_data).  *)
(*                                                                         *)
(* Strings are sequences of one-character strings, so that the string      *)
(* operations of the source (replace, split, ends_with, the byte-wise      *)
(* ordering of keys) are computed and not assumed.                         *)
(***************************************************************************)
EXTENDS Integers, Sequences, FiniteSets, TLC

VARIABLES
    cache,                \* the branch's Cache: [map, list, capacity]
    hist,                 \* SpecCache: the last public cache call and its pre-state
    remote,               \* the remote branch: [head, tree, diff] of its last commit
    pc,                   \* the worker's position
    repo,                 \* the working copy in repo_path: [head, tree, diff] (head 0: no clone)
    current_commit_hash,  \* BranchHandler.current_commit_hash (0: "")
    chars,                \* tokens of the diff output not yet consumed
    poisoned,             \* the cache RwLock is poisoned
    tick,                 \* SpecSync: what the running / last tick did
    target_path,          \* BranchHandler.target_path (repo_path: no path_target given)
    input,                \* the arguments of the pure function called last
    output,               \* what that call returned
    branches,             \* Gitdis.branches: key -> [settings, cache, create_at]
    workers,              \* the threads spawned by listen_branch, in the order of spawning
    channel,              \* the events sent on the shared mpsc channel and not yet received
    consumed,             \* the events listen_events has handed to the callback, in order
    applied,              \* per branch key, the mutations applied to its cache, in order
    snapshot              \* SpecRename: the cache before the first renaming

vars == <<cache, hist, remote, pc, repo, current_commit_hash, chars, poisoned, tick, target_path, input, output, branches,
          workers, channel, consumed, applied, snapshot>>

CoordVars == <<workers, channel, consumed, applied, snapshot>>

(***************************************************************************)
(* Bounds                                                                  *)
(***************************************************************************)
MaxCap == 3          \* largest capacity given to a cache in SpecCache
MaxCommits == 3      \* commits on the remote branch, the initial one included
TightItems == 4      \* a total_branch_items small enough for evictions
MaxArr == 2          \* longest array of a document given to the flattener
MaxTime == 2         \* wall-clock instants at which add_branch is called
MaxTicks == 1        \* iterations of the pull loop, counted over all workers
MaxLink == 4         \* longest link given to get_data in SpecLink
MaxOperands == 3     \* operands of a condition group in SpecClause

(***************************************************************************)
(* Strings                                                                 *)
(***************************************************************************)
CharCode ==
    [c \in {"(", ")", ".", "/", "0", "1", "2", "3", "4", "5", "6", "7", "8", "9",
            "A", "C", "D", "M", "R", "T",
            "a", "b", "c", "d", "g", "i", "j", "l", "m", "n", "o", "r", "s",
            "t", "v", "w", "x", "y"} |->
       CASE c = "(" -> 40 [] c = ")" -> 41 [] c = "." -> 46 [] c = "/" -> 47
         [] c = "0" -> 48 [] c = "1" -> 49 [] c = "2" -> 50 [] c = "3" -> 51
         [] c = "4" -> 52 [] c = "5" -> 53 [] c = "6" -> 54 [] c = "7" -> 55
         [] c = "8" -> 56 [] c = "9" -> 57
         [] c = "A" -> 65 [] c = "C" -> 67 [] c = "D" -> 68 [] c = "M" -> 77
         [] c = "R" -> 82 [] c = "T" -> 84
         [] c = "a" -> 97 [] c = "b" -> 98 [] c = "c" -> 99 [] c = "d" -> 100
         [] c = "g" -> 103 [] c = "i" -> 105 [] c = "j" -> 106
         [] c = "l" -> 108 [] c = "m" -> 109 [] c = "n" -> 110
         [] c = "o" -> 111 [] c = "r" -> 114 [] c = "s" -> 115
         [] c = "t" -> 116 [] c = "v" -> 118 [] c = "w" -> 119
         [] c = "x" -> 120 [] c = "y" -> 121]

\* a < b in the byte-wise lexicographic order of Rust's String
StrLess(a, b) ==
    \E i \in 1..Len(b) :
        /\ \A j \in 1..(i - 1) : j <= Len(a) /\ a[j] = b[j]
        /\ (i > Len(a) \/ (a[i] # b[i] /\ CharCode[a[i]] < CharCode[b[i]]))

StartsWith(s, p) == Len(p) <= Len(s) /\ SubSeq(s, 1, Len(p)) = p

EndsWith(s, p) == Len(p) <= Len(s) /\ SubSeq(s, Len(s) - Len(p) + 1, Len(s)) = p

Contains(s, p) == \E i \in 1..(Len(s) - Len(p) + 1) : SubSeq(s, i, i + Len(p) - 1) = p

\* str::replace: every non-overlapping occurrence, left to right
RECURSIVE Replace(_, _, _)
Replace(s, from, to) ==
    IF s = <<>> THEN <<>>
    ELSE IF StartsWith(s, from)
         THEN to \o Replace(SubSeq(s, Len(from) + 1, Len(s)), from, to)
         ELSE <<Head(s)>> \o Replace(Tail(s), from, to)

\* s.split(c).next().unwrap(): the part before the first c
RECURSIVE FirstSegment(_, _)
FirstSegment(s, c) ==
    IF s = <<>> \/ Head(s) = c THEN <<>>
    ELSE <<Head(s)>> \o FirstSegment(Tail(s), c)

\* all orders in which a set can be iterated
RECURSIVE Orders(_)
Orders(S) ==
    IF S = {} THEN {<<>>}
    ELSE UNION {{<<x>> \o o : o \in Orders(S \ {x})} : x \in S}

Range(s) == {s[i] : i \in 1..Len(s)}

\* the sequences over S of length at most n
RECURSIVE ArraysOf(_, _)
ArraysOf(S, n) ==
    IF n = 0 THEN {<<>>}
    ELSE ArraysOf(S, n - 1) \cup {Append(a, x) : a \in {b \in ArraysOf(S, n - 1) : Len(b) = n - 1}, x \in S}

(***************************************************************************)
(* Values (valu3::Value)                                                   *)
(***************************************************************************)
Num(n) == [t |-> "num", n |-> n]
Undefined == [t |-> "undef"]
Obj(m) == [t |-> "obj", m |-> m]
Arr(a) == [t |-> "arr", a |-> a]
NoValue == [t |-> "none"]
\* Option::Some(x); NoValue stands for None
Some(x) == [t |-> "some", v |-> x]
EmptyMap == [k \in {} |-> NoValue]

(***************************************************************************)
(* The ordered cache                                                       *)
(***************************************************************************)
new(capacity) == [map |-> EmptyMap, list |-> <<>>, capacity |-> capacity]

len(c) == Cardinality(DOMAIN c.map)

contains_key(c, key) == key \in DOMAIN c.map

get(c, key) == IF key \in DOMAIN c.map THEN c.map[key] ELSE NoValue

\* Vec::insert(position, key), position counted from 0
VecInsert(l, position, key) ==
    SubSeq(l, 1, position) \o <<key>> \o SubSeq(l, position + 1, Len(l))

\* Vec::remove(position), position counted from 0
VecRemove(l, position) ==
    SubSeq(l, 1, position) \o SubSeq(l, position + 2, Len(l))

\* list.iter().position(|k| k > &key).unwrap_or(list.len())
SortedPosition(l, key) ==
    IF \E i \in 1..Len(l) : StrLess(key, l[i])
    THEN (CHOOSE i \in 1..Len(l) :
              StrLess(key, l[i]) /\ \A j \in 1..(i - 1) : ~StrLess(key, l[j])) - 1
    ELSE Len(l)

MapRemove(m, key) == [k \in DOMAIN m \ {key} |-> m[k]]

MapInsert(m, key, value) == [k \in DOMAIN m \cup {key} |-> IF k = key THEN value ELSE m[k]]

\* mutant: no early return for a key that is present
insert_always(c, key, value) ==
    LET full == len(c) # 0 /\ len(c) = c.capacity
        l1 == IF full THEN Tail(c.list) ELSE c.list
        m1 == IF full THEN MapRemove(c.map, Head(c.list)) ELSE c.map
    IN [c EXCEPT !.list = VecInsert(l1, SortedPosition(l1, key), key),
                 !.map = MapInsert(m1, key, value)]

\* mutant: a full cache is not relieved before the insert
insert_no_evict(c, key, value) ==
    IF key \in DOMAIN c.map THEN c
    ELSE [c EXCEPT !.list = VecInsert(c.list, SortedPosition(c.list, key), key),
                   !.map = MapInsert(c.map, key, value)]

\* mutant: a full cache drops its last (largest) key
insert_evict_last(c, key, value) ==
    IF key \in DOMAIN c.map THEN c
    ELSE LET full == len(c) # 0 /\ len(c) = c.capacity
             l1 == IF full THEN SubSeq(c.list, 1, Len(c.list) - 1) ELSE c.list
             m1 == IF full THEN MapRemove(c.map, c.list[Len(c.list)]) ELSE c.map
         IN [c EXCEPT !.list = VecInsert(l1, SortedPosition(l1, key), key),
                      !.map = MapInsert(m1, key, value)]

\* Quickleaf::insert.  `if let Some(value) = self.map.get(&key)` shadows the
\* argument, so `value.eq(value)` compares the stored value with itself.
insert(c, key, value) ==
    IF key \in DOMAIN c.map /\ c.map[key] = c.map[key]
    THEN c
    ELSE LET full == len(c) # 0 /\ len(c) = c.capacity
             l1 == IF full THEN VecRemove(c.list, 0) ELSE c.list
             m1 == IF full THEN MapRemove(c.map, c.list[1]) ELSE c.map
         IN [c EXCEPT !.list = VecInsert(l1, SortedPosition(l1, key), key),
                      !.map = MapInsert(m1, key, value)]

insert_if_not_exists(c, key, value) ==
    IF key \in DOMAIN c.map
    THEN [cache |-> c, res |-> "SortKeyExists"]
    ELSE [cache |-> insert(c, key, value), res |-> "Ok"]

set_capacity(c, capacity) == [c EXCEPT !.capacity = capacity]

\* mutant: the key stays in the list
remove_keep_list(c, key) ==
    IF \E i \in 1..Len(c.list) : c.list[i] = key
    THEN [cache |-> [c EXCEPT !.map = MapRemove(c.map, key)], res |-> "Ok"]
    ELSE [cache |-> c, res |-> "KeyNotFound"]

remove(c, key) ==
    IF \E i \in 1..Len(c.list) : c.list[i] = key
    THEN LET position == (CHOOSE i \in 1..Len(c.list) :
                              c.list[i] = key /\ \A j \in 1..(i - 1) : c.list[j] # key) - 1
         IN [cache |-> [c EXCEPT !.list = VecRemove(c.list, position),
                                 !.map = MapRemove(c.map, key)],
             res |-> "Ok"]
    ELSE [cache |-> c, res |-> "KeyNotFound"]

clear(c) == [c EXCEPT !.map = EmptyMap, !.list = <<>>]

\* ListProps: [start_after_key, filter, order, limit]
ListProps(start_after_key, filter, order, limit) ==
    [start_after_key |-> start_after_key, filter |-> filter, order |-> order, limit |-> limit]

StartAfterNone == [kind |-> "None", key |-> <<>>]
StartAfterKey(key) == [kind |-> "Key", key |-> key]

FilterNone == [kind |-> "None", start |-> <<>>, end |-> <<>>]
FilterStartWith(key) == [kind |-> "StartWith", start |-> key, end |-> <<>>]
FilterEndWith(key) == [kind |-> "EndWith", start |-> <<>>, end |-> key]
FilterStartAndEndWith(start_key, end_key) ==
    [kind |-> "StartAndEndWith", start |-> start_key, end |-> end_key]

\* `match props.filter` of the list loop
Filtered(filter, k) ==
    CASE filter.kind = "StartWith" -> StartsWith(k, filter.start)
      [] filter.kind = "EndWith" -> EndsWith(k, filter.end)
      [] filter.kind = "StartAndEndWith" -> StartsWith(k, filter.start) /\ EndsWith(k, filter.end)
      [] OTHER -> TRUE

\* iter().rev()
Rev(l) == [i \in 1..Len(l) |-> l[Len(l) + 1 - i]]

\* iter().skip(n)
Skip(l, n) == SubSeq(l, n + 1, Len(l))

\* iter().position(|k| k == &key): index from 0, or -1 for None
PositionOf(l, key) ==
    IF \E i \in 1..Len(l) : l[i] = key
    THEN (CHOOSE i \in 1..Len(l) : l[i] = key /\ \A j \in 1..(i - 1) : l[j] # key) - 1
    ELSE -1

\* the loop of list: push what passes the filter, count it, and break when
\* the count equals the limit
RECURSIVE ListLoop(_, _, _, _, _)
ListLoop(c, keys, filter, limit, list) ==
    IF keys = <<>> THEN list
    ELSE IF Filtered(filter, Head(keys))
         THEN LET pushed == Append(list, <<Head(keys), c.map[Head(keys)]>>)
              IN IF Len(pushed) = limit THEN pushed
                 ELSE ListLoop(c, Tail(keys), filter, limit, pushed)
         ELSE ListLoop(c, Tail(keys), filter, limit, list)

\* Quickleaf::list: the start index is looked up in the direction of the order
list_quickleaf(c, props) ==
    LET keys == IF props.order = "Asc" THEN c.list ELSE Rev(c.list)
        found == PositionOf(keys, props.start_after_key.key)
    IN IF props.start_after_key.kind = "Key" /\ found = -1
       THEN [res |-> "SortKeyNotFound", list |-> <<>>]
       ELSE LET start_key_index == IF props.start_after_key.kind = "None" THEN 0 ELSE found + 1
            IN [res |-> "Ok",
                list |-> ListLoop(c, Skip(keys, start_key_index), props.filter, props.limit, <<>>)]

\* memotree Cache::list: the position is looked up in the ascending list,
\* whatever the order
list_memotree(c, props) ==
    LET found == PositionOf(c.list, props.start_after_key.key)
    IN IF props.start_after_key.kind = "Key" /\ found = -1
       THEN [res |-> "SortKeyNotFound", list |-> <<>>]
       ELSE LET position == IF props.start_after_key.kind = "None" THEN 0 ELSE found + 1
                keys == IF props.order = "Asc" THEN c.list ELSE Rev(c.list)
            IN [res |-> "Ok",
                list |-> ListLoop(c, Skip(keys, position), props.filter, props.limit, <<>>)]

(***************************************************************************)
(* Values of the history variables before anything happened                *)
(***************************************************************************)
NoHist == [op |-> "new", key |-> <<>>, value |-> NoValue, arg |-> 0, res |-> "Ok",
           pre |-> new(0), log |-> <<>>, fill |-> TRUE, created |-> 0,
           lowered |-> FALSE]

NoRec == [status |-> "none", file |-> <<>>, new_file |-> <<>>, pre |-> new(0),
          targets |-> {}, evicted |-> FALSE]
NoTick == [kind |-> "none", fail |-> "none", pre_hash |-> 0, rec |-> NoRec]
NoRepo == [head |-> 0, tree |-> EmptyMap, diff |-> <<>>]
NoCall == [fn |-> "none"]
PureIdle == input = NoCall /\ output = NoCall
\* Gitdis::new: no branch is registered
NoBranches == EmptyMap
GitdisIdle == branches = NoBranches
\* no worker was spawned and no event was sent
CoordIdle ==
    /\ workers = <<>>
    /\ channel = <<>>
    /\ consumed = <<>>
    /\ applied = EmptyMap
    /\ snapshot = new(0)

WorkerIdle ==
    /\ cache = new(0)
    /\ hist = NoHist
    /\ remote = NoRepo
    /\ pc = "none"
    /\ repo = NoRepo
    /\ current_commit_hash = 0
    /\ chars = <<>>
    /\ poisoned = FALSE
    /\ tick = NoTick
    /\ target_path = <<>>

WorkerVars == <<cache, hist, remote, pc, repo, current_commit_hash, chars, poisoned, tick,
                target_path>>


(***************************************************************************)
(* Payload decoder and flattener (payload.rs)                              *)
(***************************************************************************)
EXT_JSON == <<".", "j", "s", "o", "n">>
EXT_YML == <<".", "y", "m", "l">>
EXT_YAML == <<".", "y", "a", "m", "l">>

is_valid_file(path) ==
    EndsWith(path, EXT_JSON) \/ EndsWith(path, EXT_YML) \/ EndsWith(path, EXT_YAML)

\* A file content is the document it holds and whether the JSON and the
\* YAML decoder accept it.
Content(doc) == [json |-> TRUE, yaml |-> TRUE, doc |-> doc]

parse_value(file, content) ==
    IF EndsWith(file, EXT_JSON)
    THEN IF content.json THEN content.doc ELSE Undefined
    ELSE IF EndsWith(file, EXT_YML) \/ EndsWith(file, EXT_YAML)
         THEN IF content.yaml THEN content.doc ELSE Undefined
         ELSE Undefined

DigitChar == <<"0", "1", "2", "3", "4", "5", "6", "7", "8", "9">>

\* usize::to_string
RECURSIVE to_string(_)
to_string(n) ==
    IF n < 10 THEN <<DigitChar[n + 1]>>
    ELSE to_string(n \div 10) \o <<DigitChar[(n % 10) + 1]>>

Ref(ref_type, items) == [ref_type |-> ref_type, items |-> items]

JoinKey(prefix, key) == IF prefix = <<>> THEN key ELSE prefix \o <<".">> \o key

\* flatten(value, prefix, mapper, refs): acc is [mapper, refs, list_keys].
\* The result is the set of accumulators the call can leave, one for every
\* order in which the members of the objects can be iterated.
RECURSIVE flatten(_, _, _)
RECURSIVE FlattenChildren(_, _, _, _)
FlattenChildren(children, prefix, i, acc) ==
    IF i > Len(children) THEN {acc}
    ELSE LET new_key == JoinKey(prefix, children[i][1])
             listed == [acc EXCEPT !.list_keys = Append(acc.list_keys, new_key)]
         IN UNION {FlattenChildren(children, prefix, i + 1,
                                   [a EXCEPT !.list_keys = listed.list_keys]) :
                       a \in flatten(children[i][2], new_key,
                                     [listed EXCEPT !.list_keys = <<>>])}

\* mutant: a leaf is listed under its parent but not stored
flatten_drop_leaf(value, prefix, acc) ==
    CASE value.t = "obj" ->
            UNION {{[a EXCEPT !.refs = MapInsert(a.refs, prefix, Ref("Object", a.list_keys))] :
                        a \in FlattenChildren([i \in 1..Len(o) |-> <<o[i], value.m[o[i]]>>],
                                              prefix, 1, acc)} :
                       o \in Orders(DOMAIN value.m)}
      [] value.t = "arr" ->
            {[a EXCEPT !.refs = MapInsert(a.refs, prefix, Ref("Array", a.list_keys))] :
                 a \in FlattenChildren([i \in 1..Len(value.a) |-> <<to_string(i - 1), value.a[i]>>],
                                       prefix, 1, acc)}
      [] OTHER -> {acc}

flatten(value, prefix, acc) ==
    CASE value.t = "obj" ->
            UNION {{[a EXCEPT !.refs = MapInsert(a.refs, prefix, Ref("Object", a.list_keys))] :
                        a \in FlattenChildren([i \in 1..Len(o) |-> <<o[i], value.m[o[i]]>>],
                                              prefix, 1, acc)} :
                       o \in Orders(DOMAIN value.m)}
      [] value.t = "arr" ->
            {[a EXCEPT !.refs = MapInsert(a.refs, prefix, Ref("Array", a.list_keys))] :
                 a \in FlattenChildren([i \in 1..Len(value.a) |-> <<to_string(i - 1), value.a[i]>>],
                                       prefix, 1, acc)}
      [] OTHER -> {[acc EXCEPT !.mapper = MapInsert(acc.mapper, prefix, value)]}

value_to_mapper(value) ==
    {[value |-> Obj(a.mapper), refs |-> a.refs] :
         a \in flatten(value, <<>>, [mapper |-> EmptyMap, refs |-> EmptyMap, list_keys |-> <<>>])}

to_value(key, file, content) ==
    value_to_mapper(Obj(key :> parse_value(file, content)))

(***************************************************************************)
(* BranchHandler: paths, keys, reference entries                           *)
(***************************************************************************)
total_branch_items == 100

clone_path == <<"d">>

repo_name == <<"r">>

repo_path == clone_path \o <<"/">> \o repo_name

ignore == {<<"/", ".", "g", "i", "t", "/">>}

is_ignore(key) == \E ig \in ignore : Contains(key, ig)

\* format!("{}/{}", self.repo_path, file)
FullPath(file) == repo_path \o <<"/">> \o file

fix_key(key) ==
    Replace(FirstSegment(Replace(key, repo_path \o <<"/">>, <<>>), "."), <<"/">>, <<".">>)

\* get_cache_list_positions!: key -> index in the list, counted from 0
get_cache_list_positions(c) ==
    [k \in Range(c.list) |-> (CHOOSE i \in 1..Len(c.list) : c.list[i] = k) - 1]

\* vec![kind; items.len()] followed by the positions of the items found
refs_values(refer, positions) ==
    LET kind == IF refer.ref_type = "Object" THEN 1 ELSE 0
        found == SelectSeq(refer.items, LAMBDA k : k \in DOMAIN positions)
    IN Arr([i \in 1..Len(refer.items) |-> Num(kind)]
           \o [i \in 1..Len(found) |-> Num(positions[found[i]])])

\* insert_ref!(cache, refs, positions); order: the iteration order of refs
RECURSIVE insert_ref(_, _, _, _)
insert_ref(c, refs, positions, order) ==
    IF order = <<>> THEN c
    ELSE insert_ref(insert(c, Head(order), refs_values(refs[Head(order)], positions)),
                    refs, positions, Tail(order))

\* insert_ref!(cache, refs)
insert_ref_fresh(c, refs, order) ==
    IF DOMAIN refs = {} THEN c
    ELSE insert_ref(c, refs, get_cache_list_positions(c), order)

\* an insert of key into c drops the first key of the list
Evicts(c, key) == key \notin DOMAIN c.map /\ len(c) # 0 /\ len(c) = c.capacity

RECURSIVE RefsEvict(_, _, _, _)
RefsEvict(c, refs, positions, order) ==
    /\ order # <<>>
    /\ \/ Evicts(c, Head(order))
       \/ RefsEvict(insert(c, Head(order), refs_values(refs[Head(order)], positions)),
                    refs, positions, Tail(order))

(***************************************************************************)
(* BranchHandler: bootstrap                                                *)
(***************************************************************************)
\* std::fs::read_to_string(path) on the working tree
get_file_content(tree, path) == tree[CHOOSE f \in DOMAIN tree : FullPath(f) = path]

FileExists(tree, path) == \E f \in DOMAIN tree : FullPath(f) = path

\* std::path::Path::is_dir: the cloned repository, or a directory of the tree
IsDir(tree, path) ==
    path = repo_path \/ \E f \in DOMAIN tree : StartsWith(FullPath(f), path \o <<"/">>)

\* a path that is no directory is returned as it is, unchecked
list_all_files(tree, path) ==
    IF ~IsDir(tree, path) THEN {path}
    ELSE {FullPath(f) : f \in {g \in DOMAIN tree :
                                  /\ StartsWith(FullPath(g), path \o <<"/">>)
                                  /\ ~is_ignore(FullPath(g))
                                  /\ is_valid_file(FullPath(g))}}

MapMerge(m, n) == [k \in DOMAIN m \cup DOMAIN n |-> IF k \in DOMAIN n THEN n[k] ELSE m[k]]

\* get_initial_data: files in the order of the walk, every later file
\* overriding equal keys of the earlier ones
RECURSIVE GatherData(_, _, _)
GatherData(tree, files, acc) ==
    IF files = <<>> THEN {acc}
    ELSE UNION {GatherData(tree, Tail(files),
                           [new_values |-> MapMerge(acc.new_values, tv.value.m),
                            refers |-> MapMerge(acc.refers, tv.refs)]) :
                    tv \in to_value(fix_key(Head(files)), Head(files),
                                    get_file_content(tree, Head(files)))}

get_initial_data(tree, path) ==
    UNION {GatherData(tree, files, [new_values |-> EmptyMap, refers |-> EmptyMap]) :
               files \in Orders(list_all_files(tree, path))}

\* `for (key, value) in values { cache.insert(key, value) }` over a HashMap:
\* S holds the pairs <<cache, keys not yet inserted>> that the loop can have
\* reached after the same number of iterations, whatever the iteration order
RECURSIVE InsertAllAnyOrder(_, _)
InsertAllAnyOrder(S, values) ==
    IF \A x \in S : x[2] = {} THEN {x[1] : x \in S}
    ELSE InsertAllAnyOrder(
             UNION {{<<insert(x[1], k, values[k]), x[2] \ {k}>> : k \in x[2]} : x \in S},
             values)

\* load_initial_data: every cache the bootstrap can leave
load_initial_data(c, tree, path) ==
    UNION {UNION {IF DOMAIN data.refers = {} THEN {c1}
                  ELSE LET positions == get_cache_list_positions(c1)
                       IN InsertAllAnyOrder({<<c1, DOMAIN data.refers>>},
                                            [k \in DOMAIN data.refers |->
                                                refs_values(data.refers[k], positions)]) :
                      c1 \in InsertAllAnyOrder({<<c, DOMAIN data.new_values>>},
                                               data.new_values)} :
               data \in get_initial_data(tree, path)}

(***************************************************************************)
(* BranchHandler: the record arms of update, inside cache.write()          *)
(***************************************************************************)
\* status of a token of the name-status stream
StatusOf(char) ==
    IF char = <<"A">> THEN "Added"
    ELSE IF char = <<"D">> THEN "Deleted"
    ELSE IF StartsWith(char, <<"R">>) THEN "Moved"
    ELSE IF StartsWith(char, <<"C">>) THEN "Copied"
    ELSE IF StartsWith(char, <<"M">>) THEN "Modified"
    ELSE "skip"

\* Added | Modified | Copied
InsertArm(c, key, tv, order) ==
    insert_ref_fresh(insert(c, key, tv.value), tv.refs, order)

\* Deleted: the result of remove is dropped
DeletedArm(c, key) == remove(c, key).cache

\* mutant: the old key is left in place
MovedArmKeepOld(c, key, old_key, tv, order) ==
    [cache |-> insert_ref_fresh(insert(c, key, tv.value), tv.refs, order), panic |-> FALSE]

\* Moved: insert the new key, remove(old).unwrap(), insert the references
MovedArm(c, key, old_key, tv, order) ==
    LET c1 == insert(c, key, tv.value)
        r == remove(c1, old_key)
    IN IF r.res # "Ok"
       THEN [cache |-> c1, panic |-> TRUE]
       ELSE [cache |-> insert_ref_fresh(r.cache, tv.refs, order), panic |-> FALSE]

MovedEvicts(c, key, old_key, tv, order) ==
    \/ Evicts(c, key)
    \/ LET r == remove(insert(c, key, tv.value), old_key)
       IN /\ r.res = "Ok"
          /\ RefsEvict(r.cache, tv.refs, get_cache_list_positions(r.cache), order)

(***************************************************************************)
(* SpecSync: one branch worker, the remote branch, and a reader            *)
(***************************************************************************)
F_a == <<"a">> \o EXT_JSON
F_b == <<"b">> \o EXT_JSON
F_av == <<"a", "/", "v">> \o EXT_JSON
Files == {F_a, F_b, F_av}

K_v == <<"v">>
K_w == <<"w">>
Doc1 == Obj(K_v :> Num(1))
Doc2 == Obj(K_v :> Obj(K_w :> Num(1)))
Contents == {Content(Doc1), Content(Doc2)}

\* The branch holds a proper subset of Files, so that a renaming always has a
\* free path to move a file to.
Trees == UNION {[S -> Contents] : S \in {T \in SUBSET Files : T # Files}}

CacheIdle == hist = NoHist

InitSync ==
    /\ \E items \in {TightItems, total_branch_items}, tree \in Trees :
          /\ cache = new(items)
          /\ remote = [head |-> 1, tree |-> tree, diff |-> <<>>]
    /\ pc = "created"
    /\ repo = NoRepo
    /\ current_commit_hash = 0
    /\ chars = <<>>
    /\ poisoned = FALSE
    /\ tick = NoTick
    /\ target_path = repo_path
    /\ CacheIdle
    /\ PureIdle
    /\ GitdisIdle
    /\ CoordIdle

\* one change of a push over the paths `files` and the contents `contents`:
\* the tree after it and its name-status record
ChangesOf(tree, files, contents) ==
    {[tree |-> MapInsert(tree, f, c), paths |-> {f}, sort |-> f, rec |-> <<<<"A">>, f>>] :
         f \in {g \in files \ DOMAIN tree : DOMAIN tree \cup {g} # files}, c \in contents}
    \cup {[tree |-> MapInsert(tree, x[1], x[2]), paths |-> {x[1]}, sort |-> x[1],
           rec |-> <<<<"M">>, x[1]>>] :
              x \in {y \in (DOMAIN tree) \X contents : tree[y[1]] # y[2]}}
    \cup {[tree |-> MapRemove(tree, f), paths |-> {f}, sort |-> f, rec |-> <<<<"D">>, f>>] :
              f \in DOMAIN tree}
    \cup {[tree |-> MapInsert(MapRemove(tree, f), g, tree[f]), paths |-> {f, g}, sort |-> g,
           rec |-> <<<<"R", "1", "0", "0">>, f, g>>] :
              f \in DOMAIN tree, g \in files \ DOMAIN tree}

Changes(tree) == ChangesOf(tree, Files, Contents)

\* git push: a commit with one change, or with the deletion or renaming of
\* a file and the addition or modification of another; `git diff -z --name-status` lists the records by path and ends
\* every token with NUL, so that split('\0') yields a last empty token.
\* The worker meets the remote only in clone and pull, so a push commutes
\* with every other step of the worker; pushes are taken between two ticks.
Push ==
    /\ pc = "sleeping"
    /\ remote.head < MaxCommits
    /\ \/ \E ch \in Changes(remote.tree) :
             remote' = [head |-> remote.head + 1, tree |-> ch.tree,
                        diff |-> ch.rec \o <<<<>>>>]
       \/ \E ch1 \in Changes(remote.tree) :
             \E ch2 \in Changes(ch1.tree) :
                /\ ch1.paths \cap ch2.paths = {}
                /\ StatusOf(ch1.rec[1]) \in {"Deleted", "Moved"}
                /\ StatusOf(ch2.rec[1]) \in {"Added", "Modified"}
                /\ StrLess(ch1.sort, ch2.sort)
                /\ remote' = [head |-> remote.head + 1, tree |-> ch2.tree,
                              diff |-> ch1.rec \o ch2.rec \o <<<<>>>>]
    /\ UNCHANGED <<cache, hist, pc, repo, current_commit_hash, chars, poisoned, tick, target_path, input, output, branches, CoordVars>>

\* BranchHandler::listen up to the loop: setup()
Setup ==
    /\ pc = "created"
    /\ remote.head >= 1
    /\ \E fail \in {"none", "clone", "rev_parse"} :
          /\ tick' = [NoTick EXCEPT !.kind = "setup", !.fail = fail]
          /\ IF fail = "clone"
             THEN /\ pc' = "failed"
                  /\ UNCHANGED <<cache, repo, current_commit_hash>>
             ELSE IF \E file \in list_all_files(remote.tree, target_path) :
                          ~FileExists(remote.tree, file)
             THEN \* get_file_content(..).unwrap() on a target_path that is
                  \* neither a directory nor a file
                  /\ fail = "none"
                  /\ repo' = remote
                  /\ pc' = "panicked"
                  /\ UNCHANGED <<cache, current_commit_hash>>
             ELSE /\ repo' = remote
                  /\ IF poisoned THEN UNCHANGED cache
                     ELSE cache' \in load_initial_data(cache, remote.tree, target_path)
                  /\ IF fail = "rev_parse"
                     THEN pc' = "failed" /\ UNCHANGED current_commit_hash
                     ELSE pc' = "sleeping" /\ current_commit_hash' = remote.head
    /\ UNCHANGED <<hist, remote, chars, poisoned, target_path, input, output, branches, CoordVars>>

\* one tick: sleep, then update() up to the loop over the diff tokens.
\* A git step that fails makes update, and with it listen, return Err.
\* tick describes the last tick that failed or found a new commit.
Update ==
    /\ pc = "sleeping"
    /\ \E fail \in {"none", "pull", "rev_parse", "diff"} :
          /\ tick' = IF fail = "none" /\ remote.head = current_commit_hash
                     THEN tick
                     ELSE [NoTick EXCEPT !.kind = "tick", !.fail = fail,
                                         !.pre_hash = current_commit_hash]
          /\ CASE fail = "pull" ->
                    /\ pc' = "stopped"
                    /\ UNCHANGED <<repo, current_commit_hash, chars>>
               [] fail = "rev_parse" ->
                    /\ pc' = "stopped"
                    /\ repo' = remote
                    /\ UNCHANGED <<current_commit_hash, chars>>
               [] fail = "diff" ->
                    /\ remote.head # current_commit_hash
                    /\ pc' = "stopped"
                    /\ repo' = remote
                    /\ current_commit_hash' = remote.head
                    /\ UNCHANGED chars
               [] fail = "none" ->
                    /\ repo' = remote
                    /\ IF remote.head = current_commit_hash
                       THEN pc' = "sleeping" /\ UNCHANGED <<current_commit_hash, chars>>
                       ELSE /\ pc' = "applying"
                            /\ current_commit_hash' = remote.head
                            /\ chars' = remote.diff
    /\ UNCHANGED <<cache, hist, remote, poisoned, target_path, input, output, branches, CoordVars>>

\* the loop ends: update returns Ok and listen goes back to sleep
EndOfDiff ==
    /\ pc' = "sleeping"
    /\ chars' = <<>>
    /\ UNCHANGED <<cache, poisoned, tick>>

SkipTokens(rest) ==
    /\ pc' = "applying"
    /\ chars' = rest
    /\ UNCHANGED <<cache, poisoned, tick>>

\* tick.rec: the record applied last, the cache before it, the keys of its
\* reference entries, and whether applying it evicted an entry
Record(status, file, new_file, targets, evicted) ==
    [status |-> status, file |-> file, new_file |-> new_file, pre |-> cache,
     targets |-> targets, evicted |-> evicted]

\* get_file_content(..).unwrap() on a missing file panics outside the lock
PanicUnlocked ==
    /\ pc' = "panicked"
    /\ UNCHANGED <<cache, poisoned, tick, chars>>

UpsertRecord(status, file, rest) ==
    LET tree == repo.tree
        key == fix_key(file)
    IN IF ~FileExists(tree, file) THEN PanicUnlocked
       ELSE \E tv \in to_value(key, file, get_file_content(tree, file)) :
               \E order \in Orders(DOMAIN tv.refs) :
                  /\ pc' = "applying"
                  /\ chars' = rest
                  /\ cache' = IF poisoned THEN cache ELSE InsertArm(cache, key, tv, order)
                  /\ tick' = [tick EXCEPT !.rec = Record(status, file, <<>>, DOMAIN tv.refs, FALSE)]
                  /\ UNCHANGED poisoned

DeletedRecord(file, rest) ==
    /\ pc' = "applying"
    /\ chars' = rest
    /\ cache' = IF poisoned THEN cache ELSE DeletedArm(cache, fix_key(file))
    /\ tick' = [tick EXCEPT !.rec = Record("Deleted", file, <<>>, {}, FALSE)]
    /\ UNCHANGED poisoned

MovedRecord(file, rest) ==
    LET tree == repo.tree
        new_file == FullPath(Head(rest))
        key == fix_key(new_file)
    IN IF rest = <<>> THEN EndOfDiff
       ELSE IF ~FileExists(tree, new_file) THEN PanicUnlocked
       ELSE \E tv \in to_value(key, new_file, get_file_content(tree, new_file)) :
               \E order \in Orders(DOMAIN tv.refs) :
                  LET r == MovedArm(cache, key, fix_key(file), tv, order)
                  IN /\ chars' = Tail(rest)
                     /\ tick' = [tick EXCEPT !.rec =
                                   Record("Moved", file, new_file, DOMAIN tv.refs,
                                          MovedEvicts(cache, key, fix_key(file), tv, order))]
                     /\ IF poisoned
                        THEN pc' = "applying" /\ UNCHANGED <<cache, poisoned>>
                        ELSE /\ cache' = r.cache
                             /\ poisoned' = r.panic
                             /\ pc' = IF r.panic THEN "panicked" ELSE "applying"

\* one iteration of `while let Some(char) = chars.next()`
ApplyRecord ==
    /\ pc = "applying"
    /\ IF chars = <<>> \/ Head(chars) = <<>>
       THEN EndOfDiff
       ELSE LET status == StatusOf(Head(chars))
            IN IF status = "skip" THEN SkipTokens(Tail(chars))
               ELSE IF Tail(chars) = <<>> THEN EndOfDiff
               ELSE LET file == FullPath(chars[2])
                        rest == Tail(Tail(chars))
                    IN IF is_ignore(file) \/ ~is_valid_file(file) THEN SkipTokens(rest)
                       ELSE CASE status \in {"Added", "Modified", "Copied"} ->
                                     UpsertRecord(status, file, rest)
                              [] status = "Deleted" -> DeletedRecord(file, rest)
                              [] status = "Moved" -> MovedRecord(file, rest)
    /\ UNCHANGED <<hist, remote, repo, current_commit_hash, target_path, input, output, branches, CoordVars>>

\* bytes.iter().position(|&c| c == x): counted from 1, 0 when x is absent
FirstIndex(s, x) ==
    IF \A i \in 1..Len(s) : s[i] # x THEN 0
    ELSE CHOOSE i \in 1..Len(s) : s[i] = x /\ \A j \in 1..(i - 1) : s[j] # x

\* bytes.iter().rposition(|&c| c == x)
LastIndex(s, x) ==
    IF \A i \in 1..Len(s) : s[i] # x THEN 0
    ELSE CHOOSE i \in 1..Len(s) : s[i] = x /\ \A j \in (i + 1)..Len(s) : s[j] # x

\* GitdisService::get_key_and_property: the slice &key[start + 1..end]
\* panics when the last ')' stands before the first '('
get_key_and_property(key) ==
    LET start == FirstIndex(key, "(")
        end == LastIndex(key, ")")
    IN IF start = 0 \/ end = 0
       THEN [panic |-> FALSE, key |-> key, property |-> NoValue]
       ELSE IF end < start
            THEN [panic |-> TRUE, key |-> key, property |-> NoValue]
            ELSE [panic |-> FALSE, key |-> SubSeq(key, 1, start - 1),
                  property |-> Some(SubSeq(key, start + 1, end - 1))]

\* Object::get(key).cloned()
ObjectGet(obj, key) == IF key \in DOMAIN obj.m THEN obj.m[key] ELSE NoValue

\* the Some(cache) arm of GitdisService::get_data: c is the cache behind
\* the lock, lock_poisoned whether cache.read() returns Err
get_data_of(c, lock_poisoned, link) ==
    LET kp == get_key_and_property(link)
        namespace == kp.key
        prop_path == kp.property
        value == get(c, namespace)
    IN IF kp.panic THEN [kind |-> "panic", value |-> NoValue]
       ELSE IF lock_poisoned THEN [kind |-> "InternalError", value |-> NoValue]
       ELSE IF value = NoValue THEN [kind |-> "Ok", value |-> NoValue]
       ELSE IF prop_path = NoValue THEN [kind |-> "Ok", value |-> value]
       ELSE IF value.t = "obj" THEN [kind |-> "Ok", value |-> ObjectGet(value, prop_path.v)]
       ELSE [kind |-> "Ok", value |-> NoValue]

\* GitdisService::get_data for the branch of this worker
get_data(link) == get_data_of(cache, poisoned, link)

NextSync ==
    \/ Push
    \/ Setup
    \/ Update
    \/ ApplyRecord

SpecSync == InitSync /\ [][NextSync]_vars

(***************************************************************************)
(* SpecTarget: the worker of a branch whose settings name the directory a  *)
(* of the repository as target_path                                        *)
(***************************************************************************)
\* BranchHandler::new: format!("{}/{}", repo_path, target)
target_dir == repo_path \o <<"/", "a">>

InitTarget ==
    /\ \E tree \in Trees : remote = [head |-> 1, tree |-> tree, diff |-> <<>>]
    /\ cache = new(total_branch_items)
    /\ pc = "created"
    /\ repo = NoRepo
    /\ current_commit_hash = 0
    /\ chars = <<>>
    /\ poisoned = FALSE
    /\ tick = NoTick
    /\ target_path = target_dir
    /\ CacheIdle
    /\ PureIdle
    /\ GitdisIdle
    /\ CoordIdle

SpecTarget == InitTarget /\ [][NextSync]_vars

(***************************************************************************)
(* SpecExt: the worker over files of known and unknown extension, with     *)
(* contents that decode or not, and a target_path that names the           *)
(* repository or one of its files                                          *)
(***************************************************************************)
F_yml == <<"b">> \o EXT_YML
F_txt == <<"t", ".", "t", "x", "t">>
ExtFiles == {F_a, F_yml, F_txt}

\* a content neither decoder accepts
Broken == [json |-> FALSE, yaml |-> FALSE, doc |-> Undefined]
ExtContents == {Content(Doc1), Broken}

ExtTrees == UNION {[S -> ExtContents] : S \in {T \in SUBSET ExtFiles : T # ExtFiles}}

InitExt ==
    /\ \E tree \in ExtTrees :
          /\ remote = [head |-> 1, tree |-> tree, diff |-> <<>>]
          /\ target_path \in {repo_path} \cup {FullPath(f) : f \in DOMAIN tree}
    /\ cache = new(total_branch_items)
    /\ pc = "created"
    /\ repo = NoRepo
    /\ current_commit_hash = 0
    /\ chars = <<>>
    /\ poisoned = FALSE
    /\ tick = NoTick
    /\ CacheIdle
    /\ PureIdle
    /\ GitdisIdle
    /\ CoordIdle

\* git push of a commit with one change
PushExt ==
    /\ pc = "sleeping"
    /\ remote.head < MaxCommits
    /\ \E ch \in ChangesOf(remote.tree, ExtFiles, ExtContents) :
          remote' = [head |-> remote.head + 1, tree |-> ch.tree,
                     diff |-> ch.rec \o <<<<>>>>]
    /\ UNCHANGED <<cache, hist, pc, repo, current_commit_hash, chars, poisoned, tick, target_path, input, output, branches, CoordVars>>

NextExt ==
    \/ PushExt
    \/ Setup
    \/ Update
    \/ ApplyRecord

SpecExt == InitExt /\ [][NextExt]_vars

(***************************************************************************)
(* SpecCopy: the worker over commits that copy a file (name-status          *)
(* reports a copy as C<score> NUL source NUL destination NUL)               *)
(***************************************************************************)
F_M == <<"M">> \o EXT_JSON
CopyFiles == {F_a, F_b, F_M}

CopyTrees == UNION {[S -> Contents] : S \in {T \in SUBSET CopyFiles : T # {} /\ T # CopyFiles}}

InitCopy ==
    /\ \E tree \in CopyTrees : remote = [head |-> 1, tree |-> tree, diff |-> <<>>]
    /\ cache = new(total_branch_items)
    /\ pc = "created"
    /\ repo = NoRepo
    /\ current_commit_hash = 0
    /\ chars = <<>>
    /\ poisoned = FALSE
    /\ tick = NoTick
    /\ target_path = repo_path
    /\ CacheIdle
    /\ PureIdle
    /\ GitdisIdle
    /\ CoordIdle

\* the copies of a push: the tree after it and its name-status record
Copies(tree) ==
    {[tree |-> MapInsert(tree, g, tree[f]), paths |-> {f, g}, sort |-> g,
      rec |-> <<<<"C", "1", "0", "0">>, f, g>>] :
         f \in DOMAIN tree, g \in CopyFiles \ DOMAIN tree}

\* git push of a commit that copies a file, alone or followed by the
\* modification or deletion of another file
PushCopy ==
    /\ pc = "sleeping"
    /\ remote.head < MaxCommits
    /\ \E cp \in Copies(remote.tree) :
          \/ remote' = [head |-> remote.head + 1, tree |-> cp.tree,
                        diff |-> cp.rec \o <<<<>>>>]
          \/ \E ch \in ChangesOf(cp.tree, CopyFiles, Contents) :
                /\ cp.paths \cap ch.paths = {}
                /\ StatusOf(ch.rec[1]) \in {"Modified", "Deleted"}
                /\ StrLess(cp.sort, ch.sort)
                /\ remote' = [head |-> remote.head + 1, tree |-> ch.tree,
                              diff |-> cp.rec \o ch.rec \o <<<<>>>>]
    /\ UNCHANGED <<cache, hist, pc, repo, current_commit_hash, chars, poisoned, tick, target_path, input, output, branches, CoordVars>>

NextCopy ==
    \/ PushCopy
    \/ Setup
    \/ Update
    \/ ApplyRecord

SpecCopy == InitCopy /\ [][NextCopy]_vars

\* C30 (as stated): the parser consumes both paths of a Copied record, as
\* it does for a Renamed one: whenever the loop over the tokens starts an
\* iteration, the token it reads next is a status token (or the empty token
\* that ends the stream), never the destination path of a Copied record.
C30_CopiedConsumesBothPaths ==
    (pc = "applying" /\ chars # <<>>) => Head(chars) \notin CopyFiles

(***************************************************************************)
(* SpecType: the worker over commits that change the type of a file        *)
(* (name-status reports T NUL path NUL), alone or before the deletion or   *)
(* addition of another file                                                *)
(***************************************************************************)
\* the typechanges of a push: the content is kept, the record is T path
TypeChanges(tree) ==
    {[tree |-> tree, paths |-> {f}, sort |-> f, rec |-> <<<<"T">>, f>>] : f \in DOMAIN tree}

\* git push of a commit with a typechange, alone or followed by the deletion
\* or addition of a file of a later path
PushType ==
    /\ pc = "sleeping"
    /\ remote.head < MaxCommits
    /\ \E tc \in TypeChanges(remote.tree) :
          \/ remote' = [head |-> remote.head + 1, tree |-> tc.tree,
                        diff |-> tc.rec \o <<<<>>>>]
          \/ \E ch \in ChangesOf(tc.tree, CopyFiles, Contents) :
                /\ tc.paths \cap ch.paths = {}
                /\ StatusOf(ch.rec[1]) \in {"Added", "Deleted"}
                /\ StrLess(tc.sort, ch.sort)
                /\ remote' = [head |-> remote.head + 1, tree |-> ch.tree,
                              diff |-> tc.rec \o ch.rec \o <<<<>>>>]
    /\ UNCHANGED <<cache, hist, pc, repo, current_commit_hash, chars, poisoned, tick, target_path, input, output, branches, CoordVars>>

NextType ==
    \/ PushType
    \/ Setup
    \/ Update
    \/ ApplyRecord

SpecType == InitCopy /\ [][NextType]_vars

\* the tick over a commit with a T record and one more record is over
TypeTickDone ==
    /\ pc = "sleeping"
    /\ tick.kind = "tick"
    /\ tick.fail = "none"
    /\ current_commit_hash = remote.head
    /\ Len(remote.diff) = 5
    /\ remote.diff[1] = <<"T">>

\* C31 (as stated): a record with the status T is skipped as a whole and the
\* record after it is applied as if the T record were not there: after the
\* tick a deleted file's key is gone and an added file's key is cached,
\* whatever the path of the T record starts with.
C31_UnknownStatusSkipped ==
    TypeTickDone =>
        LET key == fix_key(FullPath(remote.diff[4]))
        IN IF remote.diff[3] = <<"D">> THEN key \notin DOMAIN cache.map
           ELSE key \in DOMAIN cache.map

(***************************************************************************)
(* SpecSameKey: the worker over b.json, b.yml and a.json, whose commits    *)
(* can rename a file to a path of the same key (b.json -> b.yml); a file   *)
(* holds an object or a scalar                                             *)
(***************************************************************************)
SameKeyFiles == {F_b, F_yml, F_a}
SameKeyContents == {Content(Doc1), Content(Doc2), Content(Num(1)), Content(Num(2))}

SameKeyTrees ==
    UNION {[S -> SameKeyContents] : S \in {T \in SUBSET SameKeyFiles : Cardinality(T) <= 1}}

InitSameKey ==
    /\ \E tree \in SameKeyTrees : remote = [head |-> 1, tree |-> tree, diff |-> <<>>]
    /\ cache = new(total_branch_items)
    /\ pc = "created"
    /\ repo = NoRepo
    /\ current_commit_hash = 0
    /\ chars = <<>>
    /\ poisoned = FALSE
    /\ tick = NoTick
    /\ target_path = repo_path
    /\ CacheIdle
    /\ PureIdle
    /\ GitdisIdle
    /\ CoordIdle

\* git push of a commit with one change
PushSameKey ==
    /\ pc = "sleeping"
    /\ remote.head < MaxCommits
    /\ \E ch \in ChangesOf(remote.tree, SameKeyFiles, SameKeyContents) :
          remote' = [head |-> remote.head + 1, tree |-> ch.tree,
                     diff |-> ch.rec \o <<<<>>>>]
    /\ UNCHANGED <<cache, hist, pc, repo, current_commit_hash, chars, poisoned, tick, target_path, input, output, branches, CoordVars>>

NextSameKey ==
    \/ PushSameKey
    \/ Setup
    \/ Update
    \/ ApplyRecord

SpecSameKey == InitSameKey /\ [][NextSameKey]_vars

\* the record applied last renamed a file to a path of the same key
SameKeyDone ==
    /\ pc \in {"applying", "sleeping"}
    /\ tick.kind = "tick"
    /\ tick.rec.status = "Moved"
    /\ fix_key(tick.rec.file) = fix_key(tick.rec.new_file)
    /\ ~poisoned

\* C32 (as stated): after a Renamed record whose old and new paths derive
\* the same key, the cache does not hold that key.
C32_SameKeyRenameLeavesKeyAbsent ==
    SameKeyDone => fix_key(tick.rec.new_file) \notin DOMAIN cache.map

\* C32 (amended): after such a record the cache does not hold the file's
\* value under the key: the key is absent when the document is a scalar,
\* and holds the reference entry of the document when it is an object.
C32_SameKeyRenameDropsValue ==
    SameKeyDone =>
        LET key == fix_key(tick.rec.new_file)
            doc == parse_value(tick.rec.new_file, get_file_content(repo.tree, tick.rec.new_file))
        IN IF doc.t = "obj"
           THEN /\ key \in tick.rec.targets
                /\ key \in DOMAIN cache.map
                /\ cache.map[key].t = "arr"
           ELSE key \notin DOMAIN cache.map

\* a renaming b.json -> b.yml of a file that holds an object has been applied
C32_Witness ==
    /\ SameKeyDone
    /\ tick.rec.file = FullPath(F_b)
    /\ tick.rec.new_file = FullPath(F_yml)
    /\ fix_key(tick.rec.new_file) \in DOMAIN cache.map

(***************************************************************************)
(* SpecAtomic: the worker applying a record statement by statement inside  *)
(* cache.write(), and a reader that calls cache.read() at any time.        *)
(* workers holds the write section the worker is in: the caches its        *)
(* remaining statements produce                                            *)
(***************************************************************************)
AtomicFiles == {F_a, F_b}

AtomicTrees == UNION {[S -> Contents] : S \in {T \in SUBSET AtomicFiles : T # AtomicFiles}}

InitAtomic ==
    /\ \E tree \in AtomicTrees : remote = [head |-> 1, tree |-> tree, diff |-> <<>>]
    /\ cache = new(total_branch_items)
    /\ pc = "created"
    /\ repo = NoRepo
    /\ current_commit_hash = 0
    /\ chars = <<>>
    /\ poisoned = FALSE
    /\ tick = NoTick
    /\ target_path = repo_path
    /\ CacheIdle
    /\ PureIdle
    /\ GitdisIdle
    /\ CoordIdle

\* git push of a commit with one change, or with the deletion or renaming
\* of a file followed by the addition of another
PushAtomic ==
    /\ pc = "sleeping"
    /\ remote.head < MaxCommits
    /\ \/ \E ch \in ChangesOf(remote.tree, AtomicFiles, Contents) :
             remote' = [head |-> remote.head + 1, tree |-> ch.tree,
                        diff |-> ch.rec \o <<<<>>>>]
       \/ \E ch1 \in ChangesOf(remote.tree, AtomicFiles, Contents) :
             \E ch2 \in ChangesOf(ch1.tree, AtomicFiles, Contents) :
                /\ ch1.paths \cap ch2.paths = {}
                /\ StatusOf(ch1.rec[1]) \in {"Deleted", "Moved"}
                /\ StatusOf(ch2.rec[1]) \in {"Added", "Modified"}
                /\ StrLess(ch1.sort, ch2.sort)
                /\ remote' = [head |-> remote.head + 1, tree |-> ch2.tree,
                              diff |-> ch1.rec \o ch2.rec \o <<<<>>>>]
    /\ UNCHANGED <<cache, hist, pc, repo, current_commit_hash, chars, poisoned, tick, target_path, input, output, branches, CoordVars>>

\* insert_ref!(cache, refs, positions): the cache after every insert
RECURSIVE insert_ref_steps(_, _, _, _)
insert_ref_steps(c, refs, positions, order) ==
    IF order = <<>> THEN <<>>
    ELSE LET c1 == insert(c, Head(order), refs_values(refs[Head(order)], positions))
         IN <<c1>> \o insert_ref_steps(c1, refs, positions, Tail(order))

\* the statements of an arm of update inside `Ok(mut cache) => { .. }`:
\* the cache after each of them, and whether the last one panics
WriteSection(status, c, key, old_key, tv, order) ==
    LET c1 == insert(c, key, tv.value)
        r == remove(c1, old_key)
        refs_of(c2) == IF DOMAIN tv.refs = {} THEN <<>>
                       ELSE insert_ref_steps(c2, tv.refs, get_cache_list_positions(c2), order)
    IN CASE status = "Deleted" -> [steps |-> <<remove(c, old_key).cache>>, panic |-> FALSE]
         [] status = "Moved" ->
               IF r.res # "Ok" THEN [steps |-> <<c1>>, panic |-> TRUE]
               ELSE [steps |-> <<c1, r.cache>> \o refs_of(r.cache), panic |-> FALSE]
         [] OTHER -> [steps |-> <<c1>> \o refs_of(c1), panic |-> FALSE]

\* the document a Deleted record works with: none
NoDocument == [value |-> Undefined, refs |-> EmptyMap]

\* a record that writes: the file is read and flattened, then cache.write()
\* is acquired; a poisoned lock makes the arm `continue`
LockRecord(status, file, new_file, rest) ==
    LET path == IF status = "Moved" THEN new_file ELSE file
        key == fix_key(path)
    IN IF status # "Deleted" /\ ~FileExists(repo.tree, path)
       THEN PanicUnlocked /\ UNCHANGED workers
       ELSE IF poisoned THEN SkipTokens(rest) /\ UNCHANGED workers
       ELSE \E tv \in (IF status = "Deleted" THEN {NoDocument}
                       ELSE to_value(key, path, get_file_content(repo.tree, path))) :
               \E order \in Orders(DOMAIN tv.refs) :
                  /\ pc' = "writing"
                  /\ chars' = rest
                  /\ workers' = <<WriteSection(status, cache, key, fix_key(file), tv, order)>>
                  /\ tick' = [tick EXCEPT !.rec = Record(status, file, new_file, DOMAIN tv.refs, FALSE)]
                  /\ UNCHANGED <<cache, poisoned>>

\* one iteration of `while let Some(char) = chars.next()` up to cache.write()
BeginRecord ==
    /\ pc = "applying"
    /\ IF chars = <<>> \/ Head(chars) = <<>>
       THEN EndOfDiff /\ UNCHANGED workers
       ELSE LET status == StatusOf(Head(chars))
            IN IF status = "skip" THEN SkipTokens(Tail(chars)) /\ UNCHANGED workers
               ELSE IF Tail(chars) = <<>> THEN EndOfDiff /\ UNCHANGED workers
               ELSE LET file == FullPath(chars[2])
                        rest == Tail(Tail(chars))
                    IN IF is_ignore(file) \/ ~is_valid_file(file)
                       THEN SkipTokens(rest) /\ UNCHANGED workers
                       ELSE IF status # "Moved" THEN LockRecord(status, file, <<>>, rest)
                       ELSE IF rest = <<>> THEN EndOfDiff /\ UNCHANGED workers
                       ELSE LockRecord(status, file, FullPath(Head(rest)), Tail(rest))
    /\ UNCHANGED <<hist, remote, repo, current_commit_hash, target_path, input, output, branches,
                   channel, consumed, applied, snapshot>>

\* the next statement inside the write section
WriteStatement ==
    /\ pc = "writing"
    /\ workers[1].steps # <<>>
    /\ cache' = Head(workers[1].steps)
    /\ workers' = <<[workers[1] EXCEPT !.steps = Tail(@)]>>
    /\ UNCHANGED <<hist, remote, pc, repo, current_commit_hash, chars, poisoned, tick, target_path,
                   input, output, branches, channel, consumed, applied, snapshot>>

\* the end of the arm drops the guard; a panic inside it poisons the lock
DropGuard ==
    /\ pc = "writing"
    /\ workers[1].steps = <<>>
    /\ workers' = <<>>
    /\ poisoned' = workers[1].panic
    /\ pc' = IF workers[1].panic THEN "panicked" ELSE "applying"
    /\ UNCHANGED <<cache, hist, remote, repo, current_commit_hash, chars, tick, target_path,
                   input, output, branches, channel, consumed, applied, snapshot>>

\* mutant: the guard is dropped after the first statement of the arm
write_guard_first_statement(section, before) ==
    section # <<>> /\ before = tick.rec.pre

\* RwLock: the write guard lives from cache.write() to the end of the arm
write_guard_alive(section, before) == section # <<>>

\* GitdisService::get_data up to cache.read(): the reader waits while the
\* write guard is alive and gets Err from a poisoned lock; output keeps the
\* cache it sees, with the record applied last and the tree of its commit
ReadCache ==
    /\ ~write_guard_alive(workers, cache)
    /\ ~poisoned
    /\ output' = [fn |-> "get_data", seen |-> cache, rec |-> tick.rec, tree |-> repo.tree]
    /\ UNCHANGED <<input, branches, WorkerVars, CoordVars>>

NextAtomic ==
    \/ PushAtomic
    \/ Setup
    \/ Update
    \/ BeginRecord
    \/ WriteStatement
    \/ DropGuard
    \/ ReadCache

SpecAtomic == InitAtomic /\ [][NextAtomic]_vars

\* the caches the whole arm of the record rec can leave
RecordResults(rec, tree) ==
    LET path == IF rec.status = "Moved" THEN rec.new_file ELSE rec.file
        key == fix_key(path)
    IN IF rec.status = "Deleted" THEN {DeletedArm(rec.pre, key)}
       ELSE UNION {{IF rec.status = "Moved"
                    THEN MovedArm(rec.pre, key, fix_key(rec.file), tv, order).cache
                    ELSE InsertArm(rec.pre, key, tv, order) :
                        order \in Orders(DOMAIN tv.refs)} :
                      tv \in to_value(key, path, get_file_content(tree, path))}

\* C33: a reader sees the cache as a whole record of the tick left it:
\* never between the insert of a renamed file's new key and the removal of
\* the old one, nor between the insert of a value and of its reference
\* entries.
C33_ReaderSeesWholeRecords ==
    (output.fn = "get_data" /\ output.rec.status # "none")
        => output.seen \in RecordResults(output.rec, output.tree)

\* a reader has read between the Renamed record of a tick and the record
\* after it
C33_Witness ==
    /\ output.fn = "get_data"
    /\ output.rec.status = "Moved"
    /\ output.seen # output.rec.pre
    /\ tick.rec.status = "Added"

(***************************************************************************)
(* SpecRename: the worker over a branch whose file a.json is renamed to     *)
(* b.json by one commit and back to a.json by the next, each seen by a      *)
(* tick of its own                                                          *)
(***************************************************************************)
Doc3 == Obj(K_v :> Arr(<<Num(1), Obj(K_w :> Num(2))>>))
RenameContents == {Content(Doc1), Content(Doc2), Content(Doc3)}

RenameTrees == UNION {[S -> RenameContents] : S \in SUBSET {F_a, F_av}}

R100 == <<"R", "1", "0", "0">>

InitRename ==
    /\ \E items \in {TightItems, total_branch_items}, tree \in RenameTrees :
          /\ cache = new(items)
          /\ remote = [head |-> 1, tree |-> tree, diff |-> <<>>]
    /\ pc = "created"
    /\ repo = NoRepo
    /\ current_commit_hash = 0
    /\ chars = <<>>
    /\ poisoned = FALSE
    /\ tick = NoTick
    /\ target_path = repo_path
    /\ CacheIdle
    /\ PureIdle
    /\ GitdisIdle
    /\ CoordIdle

\* the last commit renamed a.json to b.json / b.json to a.json
RenamedAway == remote.diff = <<R100, F_a, F_b, <<>>>>
RenamedBack == remote.diff = <<R100, F_b, F_a, <<>>>>

\* git push, once the worker has seen the commit before: a.json is added
\* if the branch does not hold it, renamed to b.json, and renamed back;
\* snapshot keeps the cache the first renaming meets
PushRename ==
    /\ pc = "sleeping"
    /\ current_commit_hash = remote.head
    /\ remote.head <= MaxCommits
    /\ ~RenamedBack
    /\ IF RenamedAway
       THEN /\ remote' = [head |-> remote.head + 1,
                          tree |-> MapInsert(MapRemove(remote.tree, F_b), F_a, remote.tree[F_b]),
                          diff |-> <<R100, F_b, F_a, <<>>>>]
            /\ UNCHANGED snapshot
       ELSE IF F_a \in DOMAIN remote.tree
            THEN /\ remote' = [head |-> remote.head + 1,
                               tree |-> MapInsert(MapRemove(remote.tree, F_a), F_b, remote.tree[F_a]),
                               diff |-> <<R100, F_a, F_b, <<>>>>]
                 /\ snapshot' = cache
            ELSE /\ \E c \in RenameContents :
                       remote' = [head |-> remote.head + 1,
                                  tree |-> MapInsert(remote.tree, F_a, c),
                                  diff |-> <<<<"A">>, F_a, <<>>>>]
                 /\ UNCHANGED snapshot
    /\ UNCHANGED <<cache, hist, pc, repo, current_commit_hash, chars, poisoned, tick, target_path, input, output, branches,
                   workers, channel, consumed, applied>>

NextRename ==
    \/ PushRename
    \/ Setup
    \/ Update
    \/ ApplyRecord

SpecRename == InitRename /\ [][NextRename]_vars

\* the tick that applied the renaming back is over
RoundTripDone ==
    /\ RenamedBack
    /\ pc = "sleeping"
    /\ current_commit_hash = remote.head
    /\ tick.rec.status = "Moved"
    /\ tick.rec.new_file = FullPath(F_a)

\* C26 (as stated): a Renamed record a -> b applied in one tick and a
\* Renamed record b -> a applied in a later tick, the content of the file
\* unchanged, leave the cache with exactly the keys and values it held
\* before the first renaming, for every content of the file.
C26_RenameRoundTrip == RoundTripDone => cache = snapshot

(***************************************************************************)
(* SpecCache: the public mutations of one cache, called in any order       *)
(***************************************************************************)
CacheKeys == {<<>>, <<"a">>, <<"a", ".", "v">>, <<"b">>}
CacheValues == {Num(1), Num(2)}

SyncIdle ==
    /\ remote = NoRepo
    /\ pc = "none"
    /\ repo = NoRepo
    /\ current_commit_hash = 0
    /\ chars = <<>>
    /\ poisoned = FALSE
    /\ tick = NoTick
    /\ target_path = <<>>

SyncVars == <<remote, pc, repo, current_commit_hash, chars, poisoned, tick, target_path, input, output, branches, CoordVars>>

InitCache ==
    /\ \E capacity \in 0..MaxCap :
          /\ cache = new(capacity)
          /\ hist = [NoHist EXCEPT !.pre = new(capacity), !.arg = capacity,
                                   !.created = capacity]
    /\ SyncIdle
    /\ PureIdle
    /\ GitdisIdle
    /\ CoordIdle

\* hist.log / hist.fill: the keys inserted so far, while the cache has seen
\* nothing but inserts of distinct keys since it was created
CallInsert ==
    \E key \in CacheKeys, value \in CacheValues :
        /\ cache' = insert(cache, key, value)
        /\ hist' = [hist EXCEPT !.op = "insert", !.key = key, !.value = value,
                                !.res = "Ok", !.pre = cache,
                                !.fill = hist.fill /\ key \notin Range(hist.log),
                                !.log = IF hist.fill /\ key \notin Range(hist.log)
                                        THEN Append(hist.log, key) ELSE <<>>]
        /\ UNCHANGED SyncVars

CallInsertIfNotExists ==
    \E key \in CacheKeys, value \in CacheValues :
        /\ cache' = insert_if_not_exists(cache, key, value).cache
        /\ hist' = [hist EXCEPT !.op = "insert_if_not_exists", !.key = key,
                                !.value = value, !.pre = cache,
                                !.res = insert_if_not_exists(cache, key, value).res,
                                !.fill = FALSE, !.log = <<>>]
        /\ UNCHANGED SyncVars

CallRemove ==
    \E key \in CacheKeys :
        /\ cache' = remove(cache, key).cache
        /\ hist' = [hist EXCEPT !.op = "remove", !.key = key, !.value = NoValue,
                                !.pre = cache, !.res = remove(cache, key).res,
                                !.fill = FALSE, !.log = <<>>]
        /\ UNCHANGED SyncVars

CallClear ==
    /\ cache' = clear(cache)
    /\ hist' = [hist EXCEPT !.op = "clear", !.key = <<>>, !.value = NoValue,
                            !.pre = cache, !.res = "Ok", !.fill = FALSE, !.log = <<>>]
    /\ UNCHANGED SyncVars

\* hist.lowered: some set_capacity call gave a capacity of 0 or one below the
\* number of entries stored at that time
CallSetCapacity ==
    \E capacity \in 0..MaxCap :
        /\ cache' = set_capacity(cache, capacity)
        /\ hist' = [hist EXCEPT !.op = "set_capacity", !.key = <<>>, !.value = NoValue,
                                !.arg = capacity, !.pre = cache, !.res = "Ok",
                                !.fill = FALSE, !.log = <<>>,
                                !.lowered = hist.lowered \/ capacity = 0
                                                \/ capacity < len(cache)]
        /\ UNCHANGED SyncVars

NextCache ==
    \/ CallInsert
    \/ CallInsertIfNotExists
    \/ CallRemove
    \/ CallClear
    \/ CallSetCapacity

SpecCache == InitCache /\ [][NextCache]_vars

(***************************************************************************)
(* BranchSettings                                                          *)
(***************************************************************************)
\* str::split(c) collected into a Vec
RECURSIVE Split(_, _)
Split(s, c) ==
    IF \A i \in 1..Len(s) : s[i] # c THEN <<s>>
    ELSE LET i == CHOOSE x \in 1..Len(s) : s[x] = c /\ \A j \in 1..(x - 1) : s[j] # c
         IN <<SubSeq(s, 1, i - 1)>> \o Split(SubSeq(s, i + 1, Len(s)), c)

\* BranchSettings::crete_branch_key; indexing url[url.len() - 2] panics on a
\* URL without '/'
crete_branch_key(url, branch_name) ==
    LET parts == Split(url, "/")
    IN IF Len(parts) < 2 THEN [panic |-> TRUE, key |-> <<>>]
       ELSE LET name == Split(parts[Len(parts)], ".")[1]
                owner == parts[Len(parts) - 1]
                repo_owner == IF Contains(owner, <<":">>) THEN Split(owner, ":")[2] ELSE owner
            IN [panic |-> FALSE,
                key |-> repo_owner \o <<"/">> \o name \o <<"/">> \o branch_name]

\* BranchSettings::new
BranchSettings_new(url, branch_name, pull_request_interval_millis, path_target) ==
    [url |-> url, branch_name |-> branch_name, key |-> crete_branch_key(url, branch_name).key,
     pull_request_interval_millis |-> pull_request_interval_millis,
     path_target |-> path_target]

(***************************************************************************)
(* SpecKey: BranchSettings::new on URLs of the two documented forms        *)
(***************************************************************************)
Owners == {<<"o">>, <<"p", "q">>, <<"o", ".", "p">>}
Repos == {<<"r">>, <<"s", "t">>, <<"r", "-", "s">>, <<"r", ".", "s">>}
BranchNames == {<<"m">>, <<"d", "e", "v">>, <<"f", "/", "x">>}
DotGit == <<".", "g", "i", "t">>
\* what precedes "<owner>/<repo>.git": https://h/, h/ and user@host:
UrlHeads ==
    {<<"h", "t", "t", "p", "s", ":", "/", "/", "h", "/">>, <<"h", "/">>, <<"u", "@", "h", ":">>}

InitKey ==
    /\ input \in {[fn |-> "BranchSettings::new", owner |-> o, repo |-> r, branch_name |-> b,
                    url |-> h \o o \o <<"/">> \o r \o DotGit] :
                      h \in UrlHeads, o \in Owners, r \in Repos, b \in BranchNames}
    /\ output = NoCall
    /\ WorkerIdle
    /\ GitdisIdle
    /\ CoordIdle

CallNew ==
    /\ input.fn = "BranchSettings::new"
    /\ output = NoCall
    /\ output' = [fn |-> "BranchSettings::new",
                  panic |-> crete_branch_key(input.url, input.branch_name).panic,
                  settings |-> BranchSettings_new(input.url, input.branch_name, 1000, NoValue)]
    /\ UNCHANGED <<input, branches, WorkerVars, CoordVars>>

NextKey == CallNew

SpecKey == InitKey /\ [][NextKey]_vars

\* C19 (as stated): for every owner, repo and branch name the key derived
\* from "<owner>/<repo>.git" or "user@host:<owner>/<repo>.git" is
\* "<owner>/<repo>/<branch>", also for repo names that contain a '.'.
C19_KeyDerivation ==
    output.fn = "BranchSettings::new" =>
        /\ ~output.panic
        /\ output.settings.key =
               input.owner \o <<"/">> \o input.repo \o <<"/">> \o input.branch_name

(***************************************************************************)
(* Gitdis: the registry of branches (gitdis.rs, cache_branch.rs)           *)
(***************************************************************************)
\* CacheBranch::new; create_at is the wall clock at the call; lock is the state
\* of the RwLock around the cache: 0 when free, else the worker holding the
\* write guard
CacheBranch_new(total_cache_items, now) ==
    [cache |-> new(total_cache_items), lock |-> 0, create_at |-> now]

\* an add_branch that replaces the Branch registered under the key
add_branch_overwrite(self, settings, now) ==
    [result |-> IF settings.key \in DOMAIN self THEN "RepoExists" ELSE "Ok",
     branches |-> [k \in DOMAIN self \cup {settings.key} |->
                      IF k = settings.key
                      THEN [settings |-> settings,
                            cache |-> CacheBranch_new(total_branch_items, now)]
                      ELSE self[k]]]

\* Gitdis::add_branch on the registry self, called at wall-clock time now
add_branch(self, settings, now) ==
    LET branch_key == settings.key
    IN IF branch_key \in DOMAIN self
       THEN [result |-> "RepoExists", branches |-> self]
       ELSE [result |-> "Ok",
             branches |-> [k \in DOMAIN self \cup {branch_key} |->
                              IF k = branch_key
                              THEN [settings |-> settings,
                                    cache |-> CacheBranch_new(total_branch_items, now)]
                              ELSE self[k]]]

(***************************************************************************)
(* SpecGitdis: add_branch calls interleaved with the branch workers'       *)
(* writes into the registered caches                                       *)
(***************************************************************************)
\* two URLs of the same repository (one key) and a URL of another one
GitdisUrls ==
    {<<"h", "/", "o", "/", "r", ".", "g", "i", "t">>,
     <<"g", "/", "o", "/", "r", ".", "g", "i", "t">>,
     <<"h", "/", "o", "/", "s", ".", "g", "i", "t">>}
GitdisSettingsSet ==
    {BranchSettings_new(u, <<"m">>, i, t) :
        u \in GitdisUrls, i \in {1000, 2000}, t \in {NoValue, Some(<<"d">>)}}
Times == 1..MaxTime
WorkerKeys == {<<"a">>, <<"b">>}

InitGitdis ==
    /\ branches = NoBranches
    /\ PureIdle
    /\ WorkerIdle
    /\ CoordIdle

\* a client calls Gitdis::add_branch
AddBranch ==
    \E settings \in GitdisSettingsSet, now \in Times :
        LET r == add_branch(branches, settings, now)
        IN /\ branches' = r.branches
           /\ output' = [fn |-> "add_branch", settings |-> settings, now |-> now,
                         result |-> r.result]
           /\ UNCHANGED <<input, WorkerVars, CoordVars>>

\* the worker of a registered branch (listen_branch hands it the branch's
\* ArcCache) inserts an entry
WorkerInsert ==
    \E branch_key \in DOMAIN branches, key \in WorkerKeys :
        /\ branches' = [branches EXCEPT
                           ![branch_key].cache.cache = insert(@, key, Num(1))]
        /\ output' = [fn |-> "insert", branch_key |-> branch_key, key |-> key]
        /\ UNCHANGED <<input, WorkerVars, CoordVars>>

NextGitdis ==
    \/ AddBranch
    \/ WorkerInsert

SpecGitdis == InitGitdis /\ [][NextGitdis]_vars

\* C20: add_branch with settings whose key is already registered returns
\* RepoExists and leaves the registry unchanged (the Branch keeps its
\* settings, its cache and its create_at); add_branch with a new key returns
\* Ok and registers a Branch with these settings and an empty cache, and
\* leaves every other Branch as it was.
C20_AddBranchStep ==
    output'.fn = "add_branch" =>
        LET settings == output'.settings
        IN IF settings.key \in DOMAIN branches
           THEN /\ output'.result = "RepoExists"
                /\ branches' = branches
           ELSE /\ output'.result = "Ok"
                /\ DOMAIN branches' = DOMAIN branches \cup {settings.key}
                /\ branches'[settings.key].settings = settings
                /\ branches'[settings.key].cache.cache = new(total_branch_items)
                /\ \A k \in DOMAIN branches : branches'[k] = branches[k]

C20_AddBranchKeepsRegistered == [][C20_AddBranchStep]_vars

\* a refused add_branch, called at another instant with settings that differ
\* in url, interval and target from the registered ones, on a branch whose
\* cache the worker has filled
C20_Witness ==
    /\ output.fn = "add_branch"
    /\ output.result = "RepoExists"
    /\ LET branch == branches[output.settings.key]
       IN /\ branch.settings.url # output.settings.url
          /\ branch.settings.pull_request_interval_millis
                 # output.settings.pull_request_interval_millis
          /\ branch.settings.path_target # output.settings.path_target
          /\ Len(branch.cache.cache.list) = 2
          /\ branch.cache.create_at # output.now

(***************************************************************************)
(* SpecCoord: the coordinator with its registry, the workers spawned by    *)
(* listen_branch, the RwLock of every branch cache, the shared event       *)
(* channel and its consumer (gitdis.rs, branch_handler.rs, services.rs)    *)
(***************************************************************************)
\* the settings clients register; the third key is never registered
Settings_r ==
    BranchSettings_new(<<"h", "/", "o", "/", "r", ".", "g", "i", "t">>, <<"m">>, 1000, NoValue)
Settings_s ==
    BranchSettings_new(<<"h", "/", "o", "/", "s", ".", "g", "i", "t">>, <<"m">>, 1000, NoValue)
CoordSettings == {Settings_r, Settings_s}
NeverRegistered == <<"o", "/", "x", "/", "m">>
CoordKeys == {s.key : s \in CoordSettings} \cup {NeverRegistered}
\* the successful listen_branch calls of a run, in order: one worker per
\* branch, or two workers on one branch
ListenCalls == {<<Settings_r.key, Settings_s.key>>, <<Settings_r.key, Settings_r.key>>}
\* a plain link and one whose ')' precedes its '('
CoordLinks == {<<"a">>, <<"a", ")", "(", "v">>}

\* Event::Insert(EventData {key, value}) and Event::Remove(key); src names the
\* cache that sent the event (the events themselves carry no branch)
InsertEvent(src, key, value) == [src |-> src, kind |-> "Insert", key |-> key, value |-> value]
RemoveEvent(src, key) == [src |-> src, kind |-> "Remove", key |-> key, value |-> NoValue]

\* Cache::insert of a cache built by Cache::with_sender: the Insert event is
\* sent after the entry is stored; a call that returns early sends nothing
insert_with_sender(c, src, key, value) ==
    LET stored == insert(c, key, value)
    IN [cache |-> stored,
        events |-> IF key \in DOMAIN c.map THEN <<>>
                   ELSE <<InsertEvent(src, key, value)>>]

\* Cache::remove of a cache built by Cache::with_sender: the Remove event is
\* sent when the key was removed
remove_with_sender(c, src, key) ==
    LET r == remove(c, key)
    IN [cache |-> r.cache,
        events |-> IF r.res = "Ok" THEN <<RemoveEvent(src, key)>> ELSE <<>>]

\* the mutations a worker performs: the bootstrap stores the entry a, a tick
\* applies the records of one diff, one lock acquisition per record
OpInsert(key, value) == [kind |-> "Insert", key |-> key, value |-> value]
OpRemove(key) == [kind |-> "Remove", key |-> key, value |-> NoValue]
InitialData == <<OpInsert(<<"a">>, Num(1))>>
Diffs ==
    {<<OpRemove(<<"a">>)>>,
     <<OpInsert(<<"a">>, Num(2))>>,
     <<OpRemove(<<"a">>), OpInsert(<<"a">>, Num(2))>>}

ApplyOp(c, src, op) ==
    IF op.kind = "Insert" THEN insert_with_sender(c, src, op.key, op.value)
    ELSE remove_with_sender(c, src, op.key)

RECURSIVE ApplyOps(_, _, _)
ApplyOps(c, src, ops) ==
    IF ops = <<>> THEN [cache |-> c, events |-> <<>>]
    ELSE LET first == ApplyOp(c, src, Head(ops))
             rest == ApplyOps(first.cache, src, Tail(ops))
         IN [cache |-> rest.cache, events |-> first.events \o rest.events]

\* the thread listen_branch spawns: BranchHandler::new, then listen()
SpawnedWorker(branch_key) ==
    [branch_key |-> branch_key, pc |-> "git_clone", ticks |-> 0, todo |-> <<>>,
     setup_err |-> FALSE]

SpawnedKeys(ws) == [i \in 1..Len(ws) |-> ws[i].branch_key]

\* the ticks begun so far, over all workers
RECURSIVE TotalTicks(_)
TotalTicks(ws) == IF ws = <<>> THEN 0 ELSE Head(ws).ticks + TotalTicks(Tail(ws))

\* Gitdis::listen_branch on the registry self with the threads ws
listen_branch(self, ws, branch_key) ==
    IF branch_key \notin DOMAIN self
    THEN [result |-> "BranchNotFound", workers |-> ws]
    ELSE [result |-> "Ok", workers |-> Append(ws, SpawnedWorker(branch_key))]

\* GitdisService::get_data on the registry self
service_get_data(self, branch_key, link) ==
    IF get_key_and_property(link).panic THEN [kind |-> "panic", value |-> NoValue]
    ELSE IF branch_key \notin DOMAIN self THEN [kind |-> "BranchNotFound", value |-> NoValue]
    ELSE get_data_of(self[branch_key].cache.cache, FALSE, link)

\* a setup that goes on after a failed step
setup_step_ignore(ok, next_pc) == next_pc

\* the `?` after a git call or load_initial_data of setup: listen returns the
\* error and the thread ends
setup_step(ok, next_pc) == IF ok THEN next_pc ELSE "ended"

\* the `?` after a git call of update: listen returns the error as well
update_step(ok, next_pc) == IF ok THEN next_pc ELSE "ended"

\* a write guard that outlives the match arm
keep_write_guard(holder) == holder

\* the write guard goes out of scope at the end of the match arm
drop_write_guard(holder) == 0

\* a consumer whose Remove arm does not call the callback
listen_events_skip_remove(delivered, event) ==
    IF event.kind = "Remove" THEN delivered ELSE Append(delivered, event)

\* Gitdis::listen_events: every arm hands the received event to the callback
listen_events(delivered, event) == Append(delivered, event)

\* the program points at which a worker waits for git or sleeps
Blocking == {"git_clone", "rev_parse", "sleeping", "git_pull", "tick_rev_parse", "git_diff"}

CallSeq == IF "seq" \in DOMAIN output THEN 1 - output.seq ELSE 0
CoordCall(fn, branch_key, link, result, value) ==
    [fn |-> fn, branch_key |-> branch_key, link |-> link, result |-> result,
     value |-> value, seq |-> CallSeq]

InitCoord ==
    /\ branches = NoBranches
    /\ PureIdle
    /\ WorkerIdle
    /\ CoordIdle

\* a client registers a branch
CoordAddBranch ==
    \E settings \in CoordSettings :
        LET r == add_branch(branches, settings, 1)
        IN /\ branches' = r.branches
           /\ applied' = [k \in DOMAIN r.branches |->
                             IF k \in DOMAIN applied THEN applied[k] ELSE <<>>]
           /\ output' = CoordCall("add_branch", settings.key, <<>>, r.result, NoValue)
           /\ UNCHANGED <<input, WorkerVars, workers, channel, consumed, snapshot>>

\* a client calls listen_branch
CoordListenBranch ==
    \E branch_key \in CoordKeys :
        LET r == listen_branch(branches, workers, branch_key)
        IN /\ \E calls \in ListenCalls :
                  /\ Len(r.workers) <= Len(calls)
                  /\ SpawnedKeys(r.workers) = SubSeq(calls, 1, Len(r.workers))
           /\ workers' = r.workers
           /\ output' = CoordCall("listen_branch", branch_key, <<>>, r.result, NoValue)
           /\ UNCHANGED <<input, branches, WorkerVars, channel, consumed, applied, snapshot>>

\* a client calls get_data; cache.read() waits while a writer holds the lock
CoordGetData ==
    \E branch_key \in CoordKeys, link \in CoordLinks :
        LET r == service_get_data(branches, branch_key, link)
        IN /\ r.kind = "Ok" => branches[branch_key].cache.lock = 0
           /\ output' = CoordCall("get_data", branch_key, link, r.kind, r.value)
           /\ UNCHANGED <<input, branches, WorkerVars, CoordVars>>

WorkerFrame == <<input, output, WorkerVars, consumed, snapshot>>

\* setup: git clone (or git pull when the clone exists) returns
GitClone(w) ==
    /\ workers[w].pc = "git_clone"
    /\ \E ok \in BOOLEAN :
           workers' = [workers EXCEPT ![w].pc = setup_step(ok, "load"),
                                      ![w].setup_err = ~ok]
    /\ UNCHANGED <<branches, channel, applied>>
    /\ UNCHANGED WorkerFrame

\* load_initial_data: the files are read, then cache.write() is acquired
LoadLock(w) ==
    LET b == workers[w].branch_key
    IN /\ workers[w].pc = "load"
       /\ branches[b].cache.lock = 0
       /\ branches' = [branches EXCEPT ![b].cache.lock = w]
       /\ workers' = [workers EXCEPT ![w].pc = "loading"]
       /\ UNCHANGED <<channel, applied>>
       /\ UNCHANGED WorkerFrame

\* load_initial_data: every entry is inserted and the guard is dropped
LoadWrite(w) ==
    LET b == workers[w].branch_key
        r == ApplyOps(branches[b].cache.cache, b, InitialData)
    IN /\ workers[w].pc = "loading"
       /\ branches' = [branches EXCEPT
                          ![b].cache.cache = r.cache,
                          ![b].cache.lock = drop_write_guard(@)]
       /\ channel' = channel \o r.events
       /\ applied' = [applied EXCEPT ![b] = @ \o r.events]
       /\ workers' = [workers EXCEPT ![w].pc = setup_step(TRUE, "rev_parse")]
       /\ UNCHANGED WorkerFrame

\* setup: git rev-parse HEAD returns
GitRevParse(w) ==
    /\ workers[w].pc = "rev_parse"
    /\ \E ok \in BOOLEAN :
           workers' = [workers EXCEPT ![w].pc = setup_step(ok, "sleeping"),
                                      ![w].setup_err = ~ok]
    /\ UNCHANGED <<branches, channel, applied>>
    /\ UNCHANGED WorkerFrame

\* the sleep of the loop ends and update begins
Wake(w) ==
    /\ workers[w].pc = "sleeping"
    /\ TotalTicks(workers) < MaxTicks
    /\ workers' = [workers EXCEPT ![w].pc = "git_pull", ![w].ticks = @ + 1]
    /\ UNCHANGED <<branches, channel, applied>>
    /\ UNCHANGED WorkerFrame

\* update: git pull returns
GitPull(w) ==
    /\ workers[w].pc = "git_pull"
    /\ \E ok \in BOOLEAN :
           workers' = [workers EXCEPT ![w].pc = update_step(ok, "tick_rev_parse")]
    /\ UNCHANGED <<branches, channel, applied>>
    /\ UNCHANGED WorkerFrame

\* update: git rev-parse HEAD returns, with the cursor's hash or a new one
TickRevParse(w) ==
    /\ workers[w].pc = "tick_rev_parse"
    /\ \E ok \in BOOLEAN, changed \in BOOLEAN :
           workers' = [workers EXCEPT
                          ![w].pc = update_step(ok, IF changed THEN "git_diff"
                                                    ELSE "sleeping")]
    /\ UNCHANGED <<branches, channel, applied>>
    /\ UNCHANGED WorkerFrame

\* update: git diff returns the records of the last commit
GitDiff(w) ==
    /\ workers[w].pc = "git_diff"
    /\ \E ok \in BOOLEAN, records \in Diffs :
           workers' = [workers EXCEPT
                          ![w].pc = update_step(ok, "records"),
                          ![w].todo = IF ok THEN records ELSE <<>>]
    /\ UNCHANGED <<branches, channel, applied>>
    /\ UNCHANGED WorkerFrame

\* update: no record is left and the loop sleeps
RecordsDone(w) ==
    /\ workers[w].pc = "records"
    /\ workers[w].todo = <<>>
    /\ workers' = [workers EXCEPT ![w].pc = "sleeping"]
    /\ UNCHANGED <<branches, channel, applied>>
    /\ UNCHANGED WorkerFrame

\* update: the file of the next record is read, then cache.write() is acquired
RecordLock(w) ==
    LET b == workers[w].branch_key
    IN /\ workers[w].pc = "records"
       /\ workers[w].todo # <<>>
       /\ branches[b].cache.lock = 0
       /\ branches' = [branches EXCEPT ![b].cache.lock = w]
       /\ workers' = [workers EXCEPT ![w].pc = "writing"]
       /\ UNCHANGED <<channel, applied>>
       /\ UNCHANGED WorkerFrame

\* update: the record is applied and the guard is dropped
RecordWrite(w) ==
    LET b == workers[w].branch_key
        r == ApplyOp(branches[b].cache.cache, b, Head(workers[w].todo))
    IN /\ workers[w].pc = "writing"
       /\ branches' = [branches EXCEPT
                          ![b].cache.cache = r.cache,
                          ![b].cache.lock = drop_write_guard(@)]
       /\ channel' = channel \o r.events
       /\ applied' = [applied EXCEPT ![b] = @ \o r.events]
       /\ workers' = [workers EXCEPT ![w].pc = "records", ![w].todo = Tail(@)]
       /\ UNCHANGED WorkerFrame

\* listen_events receives the next event of the channel
Consume ==
    /\ channel # <<>>
    /\ consumed' = listen_events(consumed, Head(channel))
    /\ channel' = Tail(channel)
    /\ UNCHANGED <<input, output, branches, WorkerVars, workers, applied, snapshot>>

NextCoord ==
    \/ CoordAddBranch
    \/ CoordListenBranch
    \/ CoordGetData
    \/ \E w \in 1..Len(workers) : GitClone(w)
    \/ \E w \in 1..Len(workers) : LoadLock(w)
    \/ \E w \in 1..Len(workers) : LoadWrite(w)
    \/ \E w \in 1..Len(workers) : GitRevParse(w)
    \/ \E w \in 1..Len(workers) : Wake(w)
    \/ \E w \in 1..Len(workers) : GitPull(w)
    \/ \E w \in 1..Len(workers) : TickRevParse(w)
    \/ \E w \in 1..Len(workers) : GitDiff(w)
    \/ \E w \in 1..Len(workers) : RecordsDone(w)
    \/ \E w \in 1..Len(workers) : RecordLock(w)
    \/ \E w \in 1..Len(workers) : RecordWrite(w)

SpecCoord == InitCoord /\ [][NextCoord]_vars

\* C21: listen_branch and get_data called with a key that was never
\* registered return BranchNotFound, spawn no worker and change no branch
\* and no cache.
C21_UnknownKeyStep ==
    (/\ output' # output
     /\ output'.fn \in {"listen_branch", "get_data"}
     /\ output'.branch_key \notin DOMAIN branches)
    => /\ output'.result = "BranchNotFound"
       /\ workers' = workers
       /\ branches' = branches
       /\ channel' = channel
       /\ applied' = applied

C21_UnknownKeyNotFound == [][C21_UnknownKeyStep]_vars

\* C25: a worker whose setup met a git failure has ended without beginning a
\* tick and holds no lock; the step in which it fails changes no branch, no
\* cache, no event and no other worker.
C25_SetupFailureStep ==
    \A w \in 1..Len(workers') :
        workers'[w].setup_err =>
            /\ workers'[w].pc = "ended"
            /\ workers'[w].ticks = 0
            /\ \A b \in DOMAIN branches' : branches'[b].cache.lock # w
            /\ (w <= Len(workers) /\ ~workers[w].setup_err) =>
                   /\ branches' = branches
                   /\ channel' = channel
                   /\ applied' = applied
                   /\ \A u \in (1..Len(workers)) \ {w} : workers'[u] = workers[u]

C25_SetupFailureIsolated == [][C25_SetupFailureStep]_vars

\* a worker failed in setup, another worker went through a whole tick that
\* wrote to its cache, and a read of a registered branch returned a value
C25_Witness ==
    \E w \in 1..Len(workers), u \in 1..Len(workers) :
        /\ w # u
        /\ workers[w].setup_err
        /\ workers[u].pc = "sleeping"
        /\ workers[u].ticks = 1
        /\ Len(applied[workers[u].branch_key]) >= 2
        /\ output.fn = "get_data"
        /\ output.result = "Ok"
        /\ output.value # NoValue

\* C35 (as stated): at any time at most one running worker exists for a
\* branch key, also when listen_branch is called more than once for it.
C35_OneWorkerPerBranch ==
    \A w \in 1..Len(workers), u \in 1..Len(workers) :
        (w # u /\ workers[w].pc # "ended" /\ workers[u].pc # "ended")
            => workers[w].branch_key # workers[u].branch_key

\* C27: a worker that waits for a git command or sleeps holds the lock of no
\* branch cache.
C27_NoLockWhileBlocked ==
    \A w \in 1..Len(workers) :
        workers[w].pc \in Blocking =>
            \A b \in DOMAIN branches : branches[b].cache.lock # w

\* a worker sleeps after a tick in which it wrote, while the other worker of
\* the same branch holds the write lock
C27_Witness ==
    \E w \in 1..Len(workers), u \in 1..Len(workers) :
        /\ workers[w].pc = "sleeping"
        /\ workers[w].ticks = 1
        /\ applied[workers[w].branch_key] # <<>>
        /\ workers[u].branch_key = workers[w].branch_key
        /\ branches[workers[u].branch_key].cache.lock = u

(***************************************************************************)
(* SpecEvents: the workers of registered branches, sending on the shared   *)
(* channel, and the consumer loop of listen_events                         *)
(***************************************************************************)
\* the registry after add_branch of every setting of S
RECURSIVE Registered(_)
Registered(S) ==
    IF S = {} THEN NoBranches
    ELSE LET settings == CHOOSE x \in S : TRUE
         IN add_branch(Registered(S \ {settings}), settings, 1).branches

\* the threads after listen_branch of every key of the sequence keys
RECURSIVE Listening(_, _)
Listening(self, keys) ==
    IF keys = <<>> THEN <<>>
    ELSE listen_branch(self, Listening(self, SubSeq(keys, 1, Len(keys) - 1)),
                       keys[Len(keys)]).workers

\* both branches are registered and listen_branch was called twice, on one
\* branch or on both
InitEvents ==
    /\ branches = Registered(CoordSettings)
    /\ \E keys \in ListenCalls :
           workers = Listening(branches, keys)
    /\ applied = [k \in DOMAIN branches |-> <<>>]
    /\ channel = <<>>
    /\ consumed = <<>>
    /\ snapshot = new(0)
    /\ PureIdle
    /\ WorkerIdle

NextEvents ==
    \/ \E w \in 1..Len(workers) : GitClone(w)
    \/ \E w \in 1..Len(workers) : LoadLock(w)
    \/ \E w \in 1..Len(workers) : LoadWrite(w)
    \/ \E w \in 1..Len(workers) : GitRevParse(w)
    \/ \E w \in 1..Len(workers) : Wake(w)
    \/ \E w \in 1..Len(workers) : GitPull(w)
    \/ \E w \in 1..Len(workers) : TickRevParse(w)
    \/ \E w \in 1..Len(workers) : GitDiff(w)
    \/ \E w \in 1..Len(workers) : RecordsDone(w)
    \/ \E w \in 1..Len(workers) : RecordLock(w)
    \/ \E w \in 1..Len(workers) : RecordWrite(w)
    \/ Consume

SpecEvents == InitEvents /\ [][NextEvents]_vars

\* the events of seq sent by the cache of branch b
EventsOf(seq, b) ==
    LET FromBranch(e) == e.src = b
    IN SelectSeq(seq, FromBranch)

AppliedIndex(i) == Len(EventsOf(SubSeq(consumed, 1, i), consumed[i].src))

\* what a reader gets for the key of the i-th delivered event
ReaderSees(i) == get(branches[consumed[i].src].cache.cache, consumed[i].key)

\* the reader's cache.read() has returned
ReaderCanRead(i) == branches[consumed[i].src].cache.lock = 0

BranchHandler_new(data_path, url, branch_name, path_target) ==
    LET parts == Split(url, "/")
        name == Replace(parts[Len(parts)], DotGit, <<>>)
        dir == data_path \o <<"/">> \o name
    IN [url |-> url, branch_name |-> branch_name, clone_path |-> data_path,
        repo_path |-> dir,
        target_path |-> IF path_target = NoValue THEN dir
                        ELSE dir \o <<"/">> \o path_target.v]

\* two branches of one repository, the same repository name under another
\* owner, and another repository
DirUrls ==
    {<<"h", "/", "o", "/", "r", ".", "g", "i", "t">>,
     <<"h", "/", "p", "/", "r", ".", "g", "i", "t">>,
     <<"h", "/", "o", "/", "s", ".", "g", "i", "t">>}
DirSettings == {BranchSettings_new(u, b, 1000, NoValue) : u \in DirUrls, b \in {<<"m">>, <<"n">>}}

InitDirs ==
    /\ branches = NoBranches
    /\ PureIdle
    /\ WorkerIdle
    /\ CoordIdle

DirsAddBranch ==
    \E settings \in DirSettings :
        /\ branches' = add_branch(branches, settings, 1).branches
        /\ branches' # branches
        /\ UNCHANGED <<input, output, WorkerVars, CoordVars>>

\* listen_branch on a registered key that has no worker yet: the thread
\* owns the handler built from the branch's settings
DirsListenBranch ==
    \E branch_key \in DOMAIN branches :
        /\ \A w \in 1..Len(workers) : workers[w].branch_key # branch_key
        /\ listen_branch(branches, workers, branch_key).result = "Ok"
        /\ workers' = Append(workers,
                             [branch_key |-> branch_key,
                              handler |-> BranchHandler_new(clone_path,
                                              branches[branch_key].settings.url,
                                              branches[branch_key].settings.branch_name,
                                              branches[branch_key].settings.path_target)])
        /\ UNCHANGED <<input, output, branches, WorkerVars, channel, consumed, applied, snapshot>>

NextDirs ==
    \/ DirsAddBranch
    \/ DirsListenBranch

SpecDirs == InitDirs /\ [][NextDirs]_vars

\* C34 (as stated): the workers of two branches with different keys have
\* different working directories, also for two branches of one repository
\* and for repositories of the same name under different owners.
C34_BranchesHaveOwnDirectory ==
    \A w \in 1..Len(workers), u \in 1..Len(workers) :
        workers[w].branch_key # workers[u].branch_key
            => workers[w].handler.repo_path # workers[u].handler.repo_path

(***************************************************************************)
(* SpecLink: get_data called with every link over a small alphabet         *)
(***************************************************************************)
LinkChars == {"a", "(", ")"}
Links == ArraysOf(LinkChars, MaxLink)

InitLink ==
    /\ input \in {[fn |-> "get_data", branch_key |-> k, link |-> l] :
                      k \in {Settings_r.key, NeverRegistered}, l \in Links}
    /\ output = NoCall
    /\ branches = Registered({Settings_r})
    /\ WorkerIdle
    /\ CoordIdle

\* GitdisService::get_data on the link of the input
CallGetData ==
    /\ input.fn = "get_data"
    /\ output = NoCall
    /\ output' = [fn |-> "get_data",
                  split |-> get_key_and_property(input.link),
                  result |-> service_get_data(branches, input.branch_key, input.link)]
    /\ UNCHANGED <<input, branches, WorkerVars, CoordVars>>

NextLink == CallGetData

SpecLink == InitLink /\ [][NextLink]_vars

\* C39 (as stated): for every link, also one whose ')' occurs only before
\* the first '(', the split into cache key and sub-path yields a result
\* without panicking, and get_data returns Ok or Err.
C39_SplitNeverPanics ==
    output.fn = "get_data" =>
        /\ ~output.split.panic
        /\ output.result.kind \in {"Ok", "BranchNotFound", "InternalError"}

(***************************************************************************)
(* SpecClause: Clause::execute on condition groups (memotree condition.rs) *)
(***************************************************************************)
\* ConditionToken; holds is what execute_condition returns for the condition
\* on the value at hand
TokenCondition(holds) == [kind |-> "Condition", holds |-> holds, conditions |-> <<>>]
TokenAnd == [kind |-> "And", holds |-> FALSE, conditions |-> <<>>]
TokenOr == [kind |-> "Or", holds |-> FALSE, conditions |-> <<>>]
TokenGroup(conditions) == [kind |-> "ConditionGroup", holds |-> FALSE, conditions |-> conditions]

\* Clause::execute_condition_group: GroupLoop is the for loop from token i
\* on, with the local `result`
RECURSIVE execute_condition_group(_)
RECURSIVE GroupLoop(_, _, _)
GroupLoop(conditions, i, result) ==
    IF i > Len(conditions) THEN result
    ELSE LET condition == conditions[i]
         IN CASE condition.kind = "Condition" ->
                    GroupLoop(conditions, i + 1, condition.holds)
              [] condition.kind = "And" ->
                    IF ~result THEN FALSE ELSE GroupLoop(conditions, i + 1, FALSE)
              [] condition.kind = "Or" ->
                    GroupLoop(conditions, i + 1, result)
              [] condition.kind = "ConditionGroup" ->
                    GroupLoop(conditions, i + 1, execute_condition_group(condition))

execute_condition_group(condition_group) == GroupLoop(condition_group.conditions, 1, FALSE)

\* conditions and groups of two conditions
Operands ==
    {TokenCondition(b) : b \in BOOLEAN}
    \cup {TokenGroup(<<TokenCondition(a), op, TokenCondition(b)>>) :
              a \in BOOLEAN, op \in {TokenAnd, TokenOr}, b \in BOOLEAN}

\* operand (operator operand)*, with at most n operands
RECURSIVE Expressions(_)
Expressions(n) ==
    IF n = 1 THEN {<<x>> : x \in Operands}
    ELSE Expressions(n - 1)
         \cup {e \o <<op, x>> :
                   e \in {d \in Expressions(n - 1) : Len(d) = 2 * n - 3},
                   op \in {TokenAnd, TokenOr}, x \in Operands}

InitClause ==
    /\ input \in {[fn |-> "execute", clause |-> TokenGroup(e)] : e \in Expressions(MaxOperands)}
    /\ output = NoCall
    /\ branches = NoBranches
    /\ WorkerIdle
    /\ CoordIdle

\* Clause::execute on a Clause::ConditionGroup
CallExecute ==
    /\ input.fn = "execute"
    /\ output = NoCall
    /\ output' = [fn |-> "execute", result |-> execute_condition_group(input.clause)]
    /\ UNCHANGED <<input, branches, WorkerVars, CoordVars>>

NextClause == CallExecute

SpecClause == InitClause /\ [][NextClause]_vars

\* the value of operand (operator operand)* read from left to right
RECURSIVE LeftToRight(_)
LeftToRight(conditions) ==
    LET n == Len(conditions)
        last == IF conditions[n].kind = "ConditionGroup"
                THEN LeftToRight(conditions[n].conditions)
                ELSE conditions[n].holds
    IN IF n = 1 THEN last
       ELSE IF conditions[n - 1].kind = "And"
            THEN LeftToRight(SubSeq(conditions, 1, n - 2)) /\ last
            ELSE LeftToRight(SubSeq(conditions, 1, n - 2)) \/ last

\* C40 (as stated): execute on a group of conditions and nested groups
\* joined by And / Or returns the value of the expression read from left to
\* right; a group `A Or B` is true whenever A is true.
C40_GroupEvaluatesExpression ==
    output.fn = "execute" => output.result = LeftToRight(input.clause.conditions)

(***************************************************************************)
(* SpecList: list called on a cache filled by insert                       *)
(***************************************************************************)
\* the cache after insert of every key of S, each with the length of the
\* key as its value
RECURSIVE Filled(_, _)
Filled(c, S) ==
    IF S = {} THEN c
    ELSE LET k == CHOOSE x \in S : TRUE
         IN Filled(insert(c, k, Num(Len(k))), S \ {k})

ListFilters ==
    {FilterNone, FilterStartWith(<<"a">>), FilterEndWith(<<"v">>),
     FilterStartAndEndWith(<<"a">>, <<"v">>)}

InitList ==
    /\ \E S \in SUBSET CacheKeys : cache = Filled(new(Cardinality(CacheKeys)), S)
    /\ input \in {[fn |-> "list", impl |-> impl, props |-> ListProps(k, f, o, l)] :
                      impl \in {"Quickleaf", "Cache"},
                      k \in {StartAfterNone} \cup {StartAfterKey(x) : x \in CacheKeys},
                      f \in ListFilters, o \in {"Asc", "Desc"}, l \in 0..(MaxCap + 2)}
    /\ output = NoCall
    /\ hist = NoHist
    /\ SyncIdle
    /\ GitdisIdle
    /\ CoordIdle

CallList ==
    /\ input.fn = "list"
    /\ output = NoCall
    /\ output' = [fn |-> "list",
                  result |-> IF input.impl = "Quickleaf" THEN list_quickleaf(cache, input.props)
                             ELSE list_memotree(cache, input.props)]
    /\ UNCHANGED <<input, branches, WorkerVars, CoordVars>>

NextList == CallList

SpecList == InitList /\ [][NextList]_vars

(***************************************************************************)
(* Claims on the cache (checked under SpecCache)                           *)
(***************************************************************************)
MinKey(S) == CHOOSE k \in S : \A o \in S \ {k} : StrLess(k, o)

Largest(S, n) ==
    CHOOSE T \in SUBSET S :
        Cardinality(T) = n /\ \A x \in T, y \in S \ T : StrLess(y, x)

Ascending(l) == \A i \in 1..(Len(l) - 1) : StrLess(l[i], l[i + 1])

OthersKept(keep) == \A k \in keep : k \in DOMAIN cache.map /\ cache.map[k] = hist.pre.map[k]

\* C2 (as stated): after insert(k, v), get(k) returns v, also when k was
\* already present with another value.
C2_InsertThenGet ==
    hist.op = "insert" => get(cache, hist.key) = hist.value

\* C3: the key list is strictly ascending, as long as the map, and holds
\* exactly the keys of the map, each once.
C3_ListMatchesMap ==
    /\ Ascending(cache.list)
    /\ Len(cache.list) = len(cache)
    /\ Range(cache.list) = DOMAIN cache.map

C3_Witness ==
    /\ hist.op = "insert"
    /\ hist.key \notin DOMAIN hist.pre.map
    /\ Len(cache.list) = 3
    /\ cache.list[2] = hist.key

C3_WitnessRemove ==
    /\ hist.op = "remove"
    /\ hist.res = "Ok"
    /\ Len(cache.list) = 2

\* C4 (as stated): for a cache created with capacity >= 1 the number of
\* stored entries is at most the current capacity after every public
\* mutation, set_capacity included.
C4_Bounded ==
    hist.created >= 1 => len(cache) <= cache.capacity

\* C4 (amended): for a cache created with capacity >= 1, as long as every
\* set_capacity call gave a capacity that is at least 1 and not below the
\* number of entries stored at the time, the number of stored entries is at
\* most the current capacity after every public mutation.
C4_BoundedUnlessLowered ==
    (hist.created >= 1 /\ ~hist.lowered) => len(cache) <= cache.capacity

C4_Witness ==
    /\ hist.created >= 1
    /\ ~hist.lowered
    /\ hist.op = "insert"
    /\ hist.key \notin DOMAIN hist.pre.map
    /\ len(hist.pre) = hist.pre.capacity
    /\ hist.pre.capacity # hist.created

\* C5: with capacity >= 1, insert of an absent key into a cache holding
\* exactly `capacity` entries removes exactly the smallest key held before
\* and stores the new key; into a cache holding fewer entries it removes
\* nothing.
C5_EvictsSmallest ==
    (/\ hist.op = "insert"
     /\ hist.key \notin DOMAIN hist.pre.map
     /\ hist.pre.capacity >= 1)
    => /\ len(hist.pre) = hist.pre.capacity
          => /\ DOMAIN cache.map =
                   (DOMAIN hist.pre.map \ {MinKey(DOMAIN hist.pre.map)}) \cup {hist.key}
             /\ OthersKept(DOMAIN hist.pre.map \ {MinKey(DOMAIN hist.pre.map)})
             /\ cache.map[hist.key] = hist.value
       /\ len(hist.pre) < hist.pre.capacity
          => /\ DOMAIN cache.map = DOMAIN hist.pre.map \cup {hist.key}
             /\ OthersKept(DOMAIN hist.pre.map)
             /\ cache.map[hist.key] = hist.value

C5_Witness ==
    /\ hist.op = "insert"
    /\ hist.key \notin DOMAIN hist.pre.map
    /\ hist.pre.capacity = 2
    /\ len(hist.pre) = 2
    /\ StrLess(hist.key, MinKey(DOMAIN hist.pre.map))
    /\ len(cache) = 2

\* C6 (as stated): more than c distinct keys inserted into an empty cache of
\* capacity c >= 1, in any order, leave the c largest keys.
C6_KeepsLargest ==
    (hist.fill /\ hist.created >= 1 /\ Len(hist.log) > hist.created)
    => DOMAIN cache.map = Largest(Range(hist.log), hist.created)

\* C6 (amended): more than c distinct keys inserted into an empty cache of
\* capacity c >= 1 leave exactly c keys, the key inserted last among them;
\* when the keys are inserted in ascending order these are the c largest
\* keys.  With capacity 1 the key inserted last is kept.
C6_KeepsLargestWhenAscending ==
    (hist.fill /\ hist.created >= 1 /\ Len(hist.log) > hist.created)
    => /\ len(cache) = hist.created
       /\ hist.log[Len(hist.log)] \in DOMAIN cache.map
       /\ Ascending(hist.log)
          => DOMAIN cache.map = Largest(Range(hist.log), hist.created)

C6_Witness ==
    /\ hist.fill
    /\ hist.created = 2
    /\ Len(hist.log) = 4
    /\ Ascending(hist.log)

\* C16: remove of an absent key returns KeyNotFound and changes nothing;
\* remove of a present key takes the key out of map and list and leaves
\* every other entry, the order of the list and the capacity as they were.
C16_RemoveExact ==
    hist.op = "remove" =>
        IF hist.key \in DOMAIN hist.pre.map
        THEN /\ hist.res = "Ok"
             /\ cache.map = MapRemove(hist.pre.map, hist.key)
             /\ cache.list = SelectSeq(hist.pre.list, LAMBDA k : k # hist.key)
             /\ hist.key \notin Range(cache.list)
             /\ cache.capacity = hist.pre.capacity
        ELSE /\ hist.res = "KeyNotFound"
             /\ cache = hist.pre

C16_Witness ==
    /\ hist.op = "remove"
    /\ hist.res = "Ok"
    /\ Len(hist.pre.list) = 3
    /\ hist.pre.list[2] = hist.key
    /\ Len(cache.list) = 2

(***************************************************************************)
(* Claims on list (checked under SpecList)                                 *)
(***************************************************************************)
\* the entries of the cache whose keys are in S, by ascending key
EntriesAsc(S) ==
    LET o == CHOOSE x \in Orders(S) : Ascending(x)
    IN [i \in 1..Len(o) |-> <<o[i], cache.map[o[i]]>>]

Listed == output.fn = "list"

\* C17 (as stated): in both implementations, list with start_after = k, no
\* filter and a limit of at least the cache size returns the entries above
\* k in ascending order for Asc and the entries below k in descending order
\* for Desc, and fails with SortKeyNotFound when k is absent.
C17_ListAfterKey ==
    (/\ Listed
     /\ input.props.start_after_key.kind = "Key"
     /\ input.props.filter = FilterNone
     /\ input.props.limit >= len(cache))
    => LET k == input.props.start_after_key.key
       IN IF k \notin DOMAIN cache.map
          THEN output.result.res = "SortKeyNotFound"
          ELSE /\ output.result.res = "Ok"
               /\ input.props.order = "Asc"
                     => output.result.list =
                            EntriesAsc({x \in DOMAIN cache.map : StrLess(k, x)})
               /\ input.props.order = "Desc"
                     => output.result.list =
                            Rev(EntriesAsc({x \in DOMAIN cache.map : StrLess(x, k)}))

\* the result of the same call without a limit in reach
Unlimited ==
    LET props == [input.props EXCEPT !.limit = len(cache) + 1]
    IN IF input.impl = "Quickleaf" THEN list_quickleaf(cache, props)
       ELSE list_memotree(cache, props)

\* C18 (as stated): list returns the first min(limit, m) of the m entries
\* that pass the cursor and the filter, in iteration order; with limit 0
\* the result is empty.
C18_ListRespectsLimit ==
    (Listed /\ output.result.res = "Ok")
    => LET m == Len(Unlimited.list)
           n == IF input.props.limit < m THEN input.props.limit ELSE m
       IN output.result.list = SubSeq(Unlimited.list, 1, n)

(***************************************************************************)
(* Claims on the branch worker (checked under SpecSync)                    *)
(***************************************************************************)
\* reads of the cache show the content the working copy holds for file:
\* the entry of the file's key is the flattened file (as a tick stores it),
\* or every dotted leaf key holds its leaf (as the bootstrap stores it)
ShowsContent(file) ==
    \E tv \in to_value(fix_key(file), file, get_file_content(repo.tree, file)) :
        \/ get(cache, fix_key(file)) = tv.value
        \/ \A k \in DOMAIN tv.value.m : get(cache, k) = tv.value.m[k]

\* C1 (as stated): when a tick whose git invocations all succeeded has
\* applied a Modified record of a valid file whose cache key was already
\* cached, reads of the cache return the new content of the file.  The
\* cache changes only when a tick applies a record, so content that is not
\* shown when the tick is over stays hidden for as long as nothing is pushed.
C1_UpdateBecomesVisible ==
    (/\ pc = "sleeping"
     /\ tick.kind = "tick"
     /\ tick.fail = "none"
     /\ tick.rec.status = "Modified"
     /\ fix_key(tick.rec.file) \in DOMAIN tick.rec.pre.map)
    => ShowsContent(tick.rec.file)

\* C7 (as stated): a git failure during a tick leaves the worker
\* Synchronizing, ready for the next tick.
C7_GitFailureKeepsWorker ==
    (tick.kind = "tick" /\ tick.fail # "none") => pc = "sleeping"

\* C8 (as stated): when a git invocation of a tick fails, the commit cursor
\* after the tick is the commit cursor before it.
C8_CursorKeptOnFailure ==
    (tick.kind = "tick" /\ tick.fail # "none") => current_commit_hash = tick.pre_hash

\* C9 (as stated): a Deleted or Renamed record whose (old) key is not cached
\* is no error: the worker neither ends nor panics, the lock stays usable
\* for readers, and no record of the diff is left unapplied.
C9_MissingKeyIsNoError ==
    (/\ tick.rec.status \in {"Deleted", "Moved"}
     /\ fix_key(tick.rec.file) \notin DOMAIN tick.rec.pre.map)
    => /\ pc \in {"applying", "sleeping"}
       /\ ~poisoned
       /\ get_data(<<"a">>).kind = "Ok"

RenameCase ==
    /\ tick.rec.status = "Moved"
    /\ is_valid_file(tick.rec.file)
    /\ is_valid_file(tick.rec.new_file)
    /\ fix_key(tick.rec.file) # fix_key(tick.rec.new_file)
    /\ fix_key(tick.rec.file) \in DOMAIN tick.rec.pre.map

\* C10 (as stated): after a Renamed record (old, new) of two valid files
\* with different keys, the old key cached, the cache contains the new key
\* and no longer the old key.
C10_RenameMovesKey ==
    RenameCase => /\ fix_key(tick.rec.new_file) \in DOMAIN cache.map
                  /\ fix_key(tick.rec.file) \notin DOMAIN cache.map

\* C10 (amended): after such a record the cache contains the new key unless
\* applying the record evicted an entry, and no longer contains the old key
\* unless the old key is the key of a reference entry of the new file.
C10_RenameMovesKeyUnlessEvicted ==
    RenameCase => /\ ~tick.rec.evicted => fix_key(tick.rec.new_file) \in DOMAIN cache.map
                  /\ fix_key(tick.rec.file) \notin tick.rec.targets
                        => fix_key(tick.rec.file) \notin DOMAIN cache.map

C10_Witness ==
    /\ RenameCase
    /\ pc = "sleeping"
    /\ ~tick.rec.evicted
    /\ fix_key(tick.rec.file) \notin tick.rec.targets
    /\ cache.capacity = TightItems
    /\ fix_key(tick.rec.new_file) \in DOMAIN cache.map

\* the keys of file: its own key and the dotted keys below it
KeysOfFile(key, file) ==
    key = fix_key(file) \/ StartsWith(key, fix_key(file) \o <<".">>)

\* the first tick has just applied a Deleted record: the cache before the
\* tick was the one of the bootstrap
DeletedDone ==
    /\ pc \in {"applying", "sleeping"}
    /\ tick.kind = "tick"
    /\ tick.pre_hash = 1
    /\ tick.rec.status = "Deleted"
    /\ ~poisoned

\* C36 (as stated): after a Deleted record for a file loaded at bootstrap,
\* the cache holds no key derived from that file, neither a dotted leaf key
\* nor a reference entry, unless a file still in the repository derives it.
C36_DeleteRemovesDerivedEntries ==
    DeletedDone =>
        \A key \in DOMAIN cache.map :
            KeysOfFile(key, tick.rec.file)
                => \E f \in DOMAIN repo.tree : KeysOfFile(key, FullPath(f))

\* C37 (as stated): with a target_path, at bootstrap and after every tick,
\* every key of the cache other than the root reference entry derives from
\* a file under target_path.
C37_KeysUnderTarget ==
    (target_path # repo_path /\ pc \in {"sleeping", "applying"} /\ ~poisoned)
        => \A key \in DOMAIN cache.map :
              \/ key = <<>>
              \/ \E f \in Files :
                    /\ StartsWith(FullPath(f), target_path \o <<"/">>)
                    /\ KeysOfFile(key, FullPath(f))

\* C28 (as stated): a valid file applied by a tick as an Added record yields
\* the cache entries that loading the same file during setup yields: one
\* entry per dotted leaf key holding the leaf, and one per reference entry.
\* (list_all_files of the path of a file is that file, so load_initial_data
\* on the cache before the record is the setup's way of storing the file.)
C28_TickMatchesBootstrap ==
    (/\ tick.rec.status = "Added"
     /\ pc \in {"applying", "sleeping"})
    => cache \in load_initial_data(tick.rec.pre, repo.tree, tick.rec.file)

\* C29 (as stated): a successful tick that advances the commit cursor over
\* more than one commit applies every valid file changed in any of these
\* commits.  Stated on the files the commits added or moved: when such a
\* tick is over (the capacity being large enough to evict nothing), every
\* valid file of the working copy has its key cached, as it has after every
\* tick that advanced over one commit.
C29_TickAppliesEveryCommit ==
    (/\ pc = "sleeping"
     /\ tick.kind = "tick"
     /\ tick.fail = "none"
     /\ ~poisoned
     /\ cache.capacity = total_branch_items
     /\ current_commit_hash > tick.pre_hash + 1)
    => \A f \in DOMAIN repo.tree :
           is_valid_file(FullPath(f)) => fix_key(FullPath(f)) \in DOMAIN cache.map

\* links "<cache_key>" and "<cache_key>(<sub_path>)"
LinkKeys == {<<"a">>, <<"b">>, <<"a", ".", "v">>, <<"z">>}
SubPaths == {<<>>, <<"a", ".", "v">>, <<"b", ".", "v">>, <<"v">>, <<"(", "v", ")">>}
Link(cache_key, sub_path) == cache_key \o <<"(">> \o sub_path \o <<")">>

\* C22 (as stated): for a registered branch, get(branch_key, link) returns
\* Ok(None) when the link's cache key is absent, Ok(Some(value)) when the
\* link has no sub-path, the member named sub_path when the link has a
\* sub-path and the cached value is an Object, and Ok(None) when it has a
\* sub-path and the cached value is no Object.
C22_GetResolvesLink ==
    \A k \in LinkKeys :
        /\ get_data(k) = [kind |-> "Ok", value |-> get(cache, k)]
        /\ \A p \in SubPaths :
              get_data(Link(k, p)) =
                  [kind |-> "Ok",
                   value |-> IF k \notin DOMAIN cache.map THEN NoValue
                             ELSE IF cache.map[k].t # "obj" THEN NoValue
                             ELSE IF p \in DOMAIN cache.map[k].m THEN cache.map[k].m[p]
                             ELSE NoValue]

(***************************************************************************)
(* SpecFlatten: value_to_mapper called twice on one document               *)
(***************************************************************************)
N_a == <<"a">>
N_b == <<"b">>
N_ab == <<"a", ".", "b">>
DocNames == {N_a, N_b, N_ab}

\* members of the top object: leaves, an object, the empty object, arrays
Inner ==
    {Num(1), Num(2), Obj(N_b :> Num(1)), Obj(EmptyMap)}
    \cup {Arr(a) : a \in ArraysOf({Num(1), Obj(N_b :> Num(2))}, MaxArr)}

Docs == Inner \cup UNION {{Obj(m) : m \in [S -> Inner]} : S \in SUBSET DocNames}

InitFlatten ==
    /\ input \in {[fn |-> "value_to_mapper", doc |-> d] : d \in Docs}
    /\ output = NoCall
    /\ WorkerIdle
    /\ GitdisIdle
    /\ CoordIdle

\* two calls of value_to_mapper on the same document
CallFlatten ==
    /\ input.fn = "value_to_mapper"
    /\ output = NoCall
    /\ \E r1 \in value_to_mapper(input.doc), r2 \in value_to_mapper(input.doc) :
          output' = [fn |-> "value_to_mapper", run1 |-> r1, run2 |-> r2]
    /\ UNCHANGED <<input, branches, WorkerVars, CoordVars>>

NextFlatten == CallFlatten

SpecFlatten == InitFlatten /\ [][NextFlatten]_vars

(***************************************************************************)
(* Claims on the flattener (checked under SpecFlatten)                     *)
(***************************************************************************)
\* the leaves of a document with their paths of member names and indices
RECURSIVE LeafPaths(_)
LeafPaths(v) ==
    CASE v.t = "obj" ->
            UNION {{<<<<k>> \o x[1], x[2]>> : x \in LeafPaths(v.m[k])} : k \in DOMAIN v.m}
      [] v.t = "arr" ->
            UNION {{<<<<to_string(i - 1)>> \o x[1], x[2]>> : x \in LeafPaths(v.a[i])} :
                       i \in 1..Len(v.a)}
      [] OTHER -> {<<<<>>, v>>}

\* the Object and Array nodes of a document with their paths
RECURSIVE ContainerPaths(_)
ContainerPaths(v) ==
    CASE v.t = "obj" ->
            {<<<<>>, v>>}
            \cup UNION {{<<<<k>> \o x[1], x[2]>> : x \in ContainerPaths(v.m[k])} : k \in DOMAIN v.m}
      [] v.t = "arr" ->
            {<<<<>>, v>>}
            \cup UNION {{<<<<to_string(i - 1)>> \o x[1], x[2]>> : x \in ContainerPaths(v.a[i])} :
                            i \in 1..Len(v.a)}
      [] OTHER -> {}

\* "s1.s2...sn"
RECURSIVE Dotted(_)
Dotted(path) ==
    IF path = <<>> THEN <<>>
    ELSE IF Len(path) = 1 THEN path[1]
    ELSE path[1] \o <<".">> \o Dotted(Tail(path))

RefMatches(ref, path, node) ==
    IF node.t = "arr"
    THEN /\ ref.ref_type = "Array"
         /\ ref.items = [i \in 1..Len(node.a) |-> Dotted(Append(path, to_string(i - 1)))]
    ELSE /\ ref.ref_type = "Object"
         /\ Len(ref.items) = Cardinality(DOMAIN node.m)
         /\ Range(ref.items) = {Dotted(Append(path, k)) : k \in DOMAIN node.m}

Flattened == output.fn = "value_to_mapper"

\* C13 (as stated): for every document the flat map holds exactly the
\* leaves, each under the dotted path of its member names and indices, and
\* refs holds every container with its kind and its children's dotted paths,
\* array children in index order.
C13_FlattenMatchesDocument ==
    Flattened =>
        LET flat_map == output.run1.value.m
            refs == output.run1.refs
        IN /\ DOMAIN flat_map = {Dotted(x[1]) : x \in LeafPaths(input.doc)}
           /\ \A x \in LeafPaths(input.doc) : flat_map[Dotted(x[1])] = x[2]
           /\ \A c \in ContainerPaths(input.doc) :
                 /\ Dotted(c[1]) \in DOMAIN refs
                 /\ RefMatches(refs[Dotted(c[1])], c[1], c[2])

\* C14 (as stated): two runs of the flattening on the same document yield
\* the same flat map and the same refs, children order included.
C14_FlattenDeterministic ==
    Flattened => output.run1 = output.run2

\* C15: every child listed under a container key of refs is a key of the
\* flat map or a key of refs.
C15_ChildrenExist ==
    Flattened =>
        \A c \in DOMAIN output.run1.refs :
            \A child \in Range(output.run1.refs[c].items) :
                child \in DOMAIN output.run1.value.m \/ child \in DOMAIN output.run1.refs

C15_Witness ==
    /\ Flattened
    /\ \E c \in DOMAIN output.run1.refs :
          \E x \in Range(output.run1.refs[c].items), y \in Range(output.run1.refs[c].items) :
             /\ c # <<>>
             /\ x \in DOMAIN output.run1.value.m
             /\ y \in DOMAIN output.run1.refs

\* C38 (as stated): distinct leaves get distinct dotted keys: the flat map
\* has exactly as many entries as the document has leaves, also when member
\* names contain '.'.
C38_LeavesKeepDistinctKeys ==
    Flattened =>
        Cardinality(DOMAIN output.run1.value.m) = Cardinality(LeafPaths(input.doc))

(***************************************************************************)
(* Claims on extensions and decoding (checked under SpecExt)               *)
(***************************************************************************)
\* C11 (as stated): no file of unknown extension ever causes a cache
\* insertion.  t.txt is the only file whose cache key is "t", so the key is
\* cached only when an insertion was made for that file.
C11_UnknownExtensionIgnored ==
    fix_key(FullPath(F_txt)) \notin DOMAIN cache.map

\* the file of the record applied last does not decode
BrokenRecord(file) ==
    /\ is_valid_file(file)
    /\ FileExists(repo.tree, file)
    /\ get_file_content(repo.tree, file) = Broken

\* C12 (as stated): after a tick applied an Added record of a file of valid
\* extension whose content does not decode, the key not cached before, the
\* worker has not failed and the cache maps the file's key to Undefined;
\* after a bootstrap over such a file likewise.
C12_DecodeFailureStoresUndefined ==
    /\ (/\ tick.kind = "tick"
        /\ tick.rec.status = "Added"
        /\ BrokenRecord(tick.rec.file)
        /\ fix_key(tick.rec.file) \notin DOMAIN tick.rec.pre.map)
       => /\ pc \in {"applying", "sleeping"}
          /\ get(cache, fix_key(tick.rec.file)) = Undefined
    /\ (tick.kind = "setup" /\ tick.fail = "none" /\ pc = "sleeping")
       => \A file \in list_all_files(repo.tree, target_path) :
              BrokenRecord(file) => get(cache, fix_key(file)) = Undefined

====
